---- MODULE Spec2Model ----
(***************************************************************************)
(* A model of the KSolve Klondike solver: the game engine (Game.hpp,       *)
(* Game.cpp), the heuristic and the worker loop (KSolveAStar.cpp), the     *)
(* move storage (MoveStorage.hpp/.cpp) and the closed set                  *)
(* (GameStateMemory.hpp/.cpp).                                             *)
(*                                                                         *)
(* The deck is scaled: CardsPerSuit and TableauSize are bounds of the      *)
(* model (the program uses 13 and 7); every rule of the engine is written  *)
(* in terms of them exactly as the source writes it in terms of its        *)
(* constants, and the stock receives whatever the deal leaves over (24     *)
(* cards in the program).                                                  *)
(***************************************************************************)
EXTENDS Integers, Sequences, FiniteSets, TLC

(***************************************************************************)
(* Bounds and program constants                                            *)
(***************************************************************************)
CardsPerSuit == 4
SuitsPerDeck == 4
CardsPerDeck == CardsPerSuit * SuitsPerDeck
TableauSize == 3
Ace == 0
King == CardsPerSuit - 1

\* PileCodeT
Waste == 0
TableauBase == 1
Stock == TableauBase + TableauSize
FoundationBase == Stock + 1
PileCount == FoundationBase + SuitsPerDeck

Piles == 0 .. (PileCount - 1)
TableauCodes == TableauBase .. (TableauBase + TableauSize - 1)
DealtCount == (TableauSize * (TableauSize + 1)) \div 2

IsTableau(pile) == TableauBase <= pile /\ pile < TableauBase + TableauSize
IsFoundationPile(pile) == FoundationBase <= pile /\ pile < FoundationBase + SuitsPerDeck

\* unsigned char arithmetic
Byte(x) == x % 256
\* 4-bit and 5-bit fields of MoveSpec
Nibble(x) == x % 16
Bits5(x) == x % 32
\* signed char
SChar(x) == ((x + 128) % 256) - 128

B2N(b) == IF b THEN 1 ELSE 0

QuotientRoundedUp(numerator, denominator) ==
    (numerator + denominator - 1) \div denominator

(***************************************************************************)
(* Card                                                                    *)
(***************************************************************************)
Card(suit, rank) == CardsPerSuit * suit + rank
Suit(c) == c \div CardsPerSuit
Rank(c) == c % CardsPerSuit
IsMajor(c) == Suit(c) \div 2
OddRed(c) == IF (Rank(c) % 2) = (Suit(c) % 2) THEN 0 ELSE 1
Covers(a, c) == Rank(a) + 1 = Rank(c) /\ OddRed(a) = OddRed(c)
FoundationPileCode(suit) == FoundationBase + suit

(***************************************************************************)
(* Pile: the cards (bottom first, top last) and the up count.  The         *)
(* operators below act on the array of all piles, as the code acts on       *)
(* references into AllPiles().                                             *)
(***************************************************************************)
EmptyPile == [cards |-> <<>>, up |-> 0]
Size(p) == Len(p.cards)
Back(p) == p.cards[Len(p.cards)]
\* Pile::Top: the bottom card of the face-up cards
Top(p) == p.cards[Len(p.cards) - p.up + 1]

PPush(P, i, c) == [P EXCEPT ![i].cards = Append(@, c)]
PPopped(P, i) == [P EXCEPT ![i].cards = SubSeq(@, 1, Len(@) - 1)]
PIncr(P, i, d) == [P EXCEPT ![i].up = Byte(@ + d)]
PSetUp(P, i, u) == [P EXCEPT ![i].up = Byte(u)]
\* to.Draw(from): move the top card of from to the top of to
PDraw1(P, to, from) == PPopped(PPush(P, to, Back(P[from])), from)
\* Take that leaves the cards in donor
PTakeKeepsDonor(P, to, donor, n) ==
    LET dc == P[donor].cards
        moved == SubSeq(dc, Len(dc) - n + 1, Len(dc))
    IN [P EXCEPT ![to].cards = @ \o moved]

\* to.Take(donor, n): the last n cards of donor go to the end of to, in order
PTake(P, to, donor, n) ==
    LET dc == P[donor].cards
        moved == SubSeq(dc, Len(dc) - n + 1, Len(dc))
        P1 == [P EXCEPT ![to].cards = @ \o moved]
    IN [P1 EXCEPT ![donor].cards = SubSeq(@, 1, Len(@) - n)]

\* The loop while (n--) to.Draw(from): the k-th card drawn is the k-th from the end
\* of from
PDrawLoop(P, to, from, n) ==
    LET fc == P[from].cards
        drawn == [k \in 1 .. n |-> fc[Len(fc) - k + 1]]
        P1 == [P EXCEPT ![to].cards = @ \o drawn]
    IN [P1 EXCEPT ![from].cards = SubSeq(@, 1, Len(@) - n)]

\* a.Draw(b, n): n > 0 moves n cards from b to a reversing their order,
\* n < 0 moves -n cards from a to b.
PDrawN(P, a, b, n) ==
    IF n < 0 THEN PDrawLoop(P, b, a, -n) ELSE PDrawLoop(P, a, b, n)

(***************************************************************************)
(* MoveSpec                                                                *)
(***************************************************************************)
DefaultMove ==
    [from |-> PileCount, to |-> PileCount, flipsTopCard |-> FALSE, nMoves |-> 0,
     ladderSuit |-> 0, recycle |-> FALSE, cardsToMove |-> 0, fromUpCount |-> 0,
     drawCount |-> 0]

\* StockMove whose count of moves leaves out the move of the card
StockMoveDrawsOnly(to, nMoves, draw, recycle) ==
    [DefaultMove EXCEPT !.from = Stock, !.to = to, !.nMoves = Bits5(nMoves - 1),
                        !.recycle = recycle, !.drawCount = SChar(draw)]

StockMove(to, nMoves, draw, recycle) ==
    [DefaultMove EXCEPT !.from = Stock, !.to = to, !.nMoves = Bits5(nMoves),
                        !.recycle = recycle, !.drawCount = SChar(draw)]

NonStockMove(from, to, n, fromUpCount) ==
    [DefaultMove EXCEPT !.from = from, !.to = to, !.nMoves = 1,
                        !.cardsToMove = Nibble(n), !.fromUpCount = Nibble(fromUpCount)]

LadderMove(from, to, n, fromUpCount, ladderCard) ==
    [NonStockMove(from, to, n, fromUpCount) EXCEPT !.nMoves = 2,
                                                   !.ladderSuit = Suit(ladderCard)]

SetFlips(mv, f) == [mv EXCEPT !.flipsTopCard = f]
IsDefault(mv) == mv.from = mv.to
IsStockMove(mv) == mv.from = Stock
NCards(mv) == IF mv.from = Stock THEN 1 ELSE mv.cardsToMove
NMoves(mv) == mv.nMoves
IsLadderMove(mv) == IsTableau(mv.from) /\ mv.nMoves = 2
LadderPileCode(mv) == mv.ladderSuit + FoundationBase

RECURSIVE MoveCountIn(_, _, _)
\* The sum of NMoves over moves[lo] .. moves[hi]
MoveCountIn(moves, lo, hi) ==
    IF lo > hi THEN 0
    ELSE IF lo = hi THEN NMoves(moves[lo])
    ELSE LET mid == (lo + hi) \div 2
         IN MoveCountIn(moves, lo, mid) + MoveCountIn(moves, mid + 1, hi)

\* The number of actual moves implied by a sequence of MoveSpecs
MoveCount(moves) == MoveCountIn(moves, 1, Len(moves))

(***************************************************************************)
(* Game                                                                    *)
(***************************************************************************)
\* Game::Deal.  The dominant-move cache is not touched.
DealPile(deck, icd) ==
    [cards |-> [j \in 1 .. (icd + 1) |->
                   deck[((j - 1) * TableauSize - ((j - 1) * (j - 2)) \div 2) + (icd - (j - 1)) + 1]],
     up |-> 1]

Deal(g) ==
    LET dealt == [p \in Piles |->
                    IF IsTableau(p) THEN DealPile(g.deck, p - TableauBase)
                    ELSE IF p = Stock
                    THEN [cards |-> [k \in 1 .. (CardsPerDeck - DealtCount) |->
                                        g.deck[CardsPerDeck - k + 1]],
                          up |-> 0]
                    ELSE EmptyPile]
        kings == Cardinality({p \in TableauCodes : Rank(dealt[p].cards[1]) = King})
    IN [g EXCEPT !.piles = dealt, !.kingSpaces = Byte(kings), !.recycleCount = 0]

\* Game::Game(deck, draw, recycleLimit)
NewGame(deck, draw, recycleLimit) ==
    Deal([deck |-> deck, draw |-> Byte(draw), limit |-> Byte(recycleLimit),
          piles |-> [p \in Piles |-> EmptyPile], recycleCount |-> 0,
          kingSpaces |-> 0, cache |-> <<>>])

\* Game::Game(const Game&): everything but the dominant-move cache is copied
CopyGame(g) == [g EXCEPT !.cache = <<>>]

\* MakeMove that does not turn the top card of the from pile face up
MakeMoveNoFlip(g, mv) ==
    LET to == mv.to IN
    IF IsStockMove(mv)
    THEN LET P1 == PDrawN(g.piles, Waste, Stock, mv.drawCount)
             P2 == PPopped(PPush(P1, to, Back(P1[Waste])), Waste)
             P3 == PIncr(P2, to, 1)
         IN [g EXCEPT !.piles = P3,
                      !.recycleCount = Byte(@ + B2N(mv.recycle))]
    ELSE LET n == NCards(mv)
             from == mv.from
             ladder == IsLadderMove(mv)
             P1 == PTake(g.piles, to, from, n)
             P2 == IF ladder THEN PDraw1(P1, FoundationBase + mv.ladderSuit, from) ELSE P1
             P3 == PIncr(P2, to, n)
         IN IF Size(P3[from]) > 0
            THEN [g EXCEPT !.piles = PIncr(P3, from, - (n + B2N(ladder)))]
            ELSE [g EXCEPT !.piles = PSetUp(P3, from, 0),
                           !.kingSpaces = Byte(@ + B2N(IsTableau(from)))]

\* Game::MakeMove
MakeMove(g, mv) ==
    LET to == mv.to IN
    IF IsStockMove(mv)
    THEN LET P1 == PDrawN(g.piles, Waste, Stock, mv.drawCount)
             P2 == PPopped(PPush(P1, to, Back(P1[Waste])), Waste)
             P3 == PIncr(P2, to, 1)
         IN [g EXCEPT !.piles = P3,
                      !.recycleCount = Byte(@ + B2N(mv.recycle))]
    ELSE LET n == NCards(mv)
             from == mv.from
             ladder == IsLadderMove(mv)
             P1 == PTake(g.piles, to, from, n)
             P2 == IF ladder THEN PDraw1(P1, FoundationBase + mv.ladderSuit, from) ELSE P1
             P3 == PIncr(P2, to, n)
         IN IF Size(P3[from]) > 0
            THEN [g EXCEPT !.piles = PIncr(P3, from, B2N(mv.flipsTopCard) - (n + B2N(ladder)))]
            ELSE [g EXCEPT !.piles = PSetUp(P3, from, 0),
                           !.kingSpaces = Byte(@ + B2N(IsTableau(from)))]

\* UnMakeMove without fromPile.SetUpCount(mv.FromUpCount())
UnMakeMoveKeepsUpCount(g, mv) ==
    LET to == mv.to IN
    IF IsStockMove(mv)
    THEN LET P1 == PPopped(PPush(g.piles, Waste, Back(g.piles[to])), to)
             P2 == PIncr(P1, to, -1)
             P3 == PDrawN(P2, Stock, Waste, mv.drawCount)
         IN [g EXCEPT !.piles = P3,
                      !.recycleCount = IF mv.recycle THEN Byte(@ - 1) ELSE @]
    ELSE LET n == NCards(mv)
             from == mv.from
             ladder == IsLadderMove(mv)
             k1 == IF ladder THEN Byte(g.kingSpaces - B2N(Size(g.piles[from]) = 0))
                   ELSE g.kingSpaces
             P1 == IF ladder THEN PDraw1(g.piles, from, FoundationBase + mv.ladderSuit)
                   ELSE g.piles
             k2 == IF IsTableau(from) THEN Byte(k1 - B2N(Size(P1[from]) = 0)) ELSE k1
             P3 == PTake(P1, from, to, n)
             P4 == PIncr(P3, to, -n)
         IN [g EXCEPT !.piles = P4, !.kingSpaces = k2]

\* Game::UnMakeMove
UnMakeMove(g, mv) ==
    LET to == mv.to IN
    IF IsStockMove(mv)
    THEN LET P1 == PPopped(PPush(g.piles, Waste, Back(g.piles[to])), to)
             P2 == PIncr(P1, to, -1)
             P3 == PDrawN(P2, Stock, Waste, mv.drawCount)
         IN [g EXCEPT !.piles = P3,
                      !.recycleCount = IF mv.recycle THEN Byte(@ - 1) ELSE @]
    ELSE LET n == NCards(mv)
             from == mv.from
             ladder == IsLadderMove(mv)
             k1 == IF ladder THEN Byte(g.kingSpaces - B2N(Size(g.piles[from]) = 0))
                   ELSE g.kingSpaces
             P1 == IF ladder THEN PDraw1(g.piles, from, FoundationBase + mv.ladderSuit)
                   ELSE g.piles
             k2 == IF IsTableau(from) THEN Byte(k1 - B2N(Size(P1[from]) = 0)) ELSE k1
             P2 == IF IsTableau(from) THEN PSetUp(P1, from, mv.fromUpCount) ELSE P1
             P3 == PTake(P2, from, to, n)
             P4 == PIncr(P3, to, -n)
         IN [g EXCEPT !.piles = P4, !.kingSpaces = k2]

\* Game::GameOver
GameOver(g) ==
    \A s \in 0 .. (SuitsPerDeck - 1) : Size(g.piles[FoundationBase + s]) = CardsPerSuit

\* the capacity of the stock: the cards that are not dealt to the tableau
TalonSize == CardsPerDeck - DealtCount

\* Valid (Game.cpp)
Valid(g, from, to, nCardsToMove) ==
    IF from \notin Piles \/ to \notin Piles THEN FALSE
    ELSE IF nCardsToMove = 0 \/ nCardsToMove > TalonSize THEN FALSE
    ELSE IF nCardsToMove > Size(g.piles[from]) THEN FALSE
    ELSE LET fromPile == g.piles[from]
             toPile == g.piles[to]
             coverCard == fromPile.cards[Size(fromPile) - nCardsToMove + 1]
         IN IF IsTableau(to)
            THEN IF Size(toPile) = 0 THEN Rank(coverCard) = King
                 ELSE Covers(coverCard, Back(toPile))
            ELSE IF IsFoundationPile(to)
            THEN Suit(coverCard) = to - FoundationBase /\ Rank(coverCard) = Size(toPile)
            ELSE TRUE

\* Game::IsValid
IsValid(g, mv) ==
    IF IsStockMove(mv)
    THEN IF mv.drawCount > 0 THEN Valid(g, Stock, mv.to, mv.drawCount)
         ELSE Valid(g, Waste, mv.to, 1 - mv.drawCount)
    ELSE Valid(g, mv.from, mv.to, NCards(mv))

RECURSIVE ValidIn(_, _)
\* The loop of TestSolution over moves[r.lo] .. moves[r.hi], from the game r.game:
\* the game after these moves, and whether each was valid where it was made
ValidIn(moves, r) ==
    IF r.lo > r.hi THEN [game |-> r.game, ok |-> TRUE]
    ELSE IF r.lo = r.hi
    THEN [game |-> MakeMove(r.game, moves[r.lo]), ok |-> IsValid(r.game, moves[r.lo])]
    ELSE LET mid == (r.lo + r.hi) \div 2
             first == ValidIn(moves, [r EXCEPT !.hi = mid])
             rest == ValidIn(moves, [game |-> first.game, lo |-> mid + 1, hi |-> r.hi])
         IN [game |-> rest.game, ok |-> first.ok /\ rest.ok]

ValidFrom(g, moves) ==
    LET played == ValidIn(moves, [game |-> g, lo |-> 1, hi |-> Len(moves)])
    IN played.ok /\ GameOver(played.game)

\* TestSolution (Game.hpp): TRUE iff neither assertion fails
TestSolution(game, moves) == ValidFrom(Deal(game), moves)

MinOver(f, S) ==
    IF S = {} THEN 0
    ELSE LET x == CHOOSE y \in S : \A z \in S : f[y] <= f[z] IN f[x]

\* Game::MinFoundationPileSize
MinFoundationPileSize(g) ==
    MinOver([s \in 0 .. (SuitsPerDeck - 1) |-> Size(g.piles[FoundationBase + s])],
            0 .. (SuitsPerDeck - 1))

CanMoveToFoundation(g, cd) == Rank(cd) = Size(g.piles[FoundationBase + Suit(cd)])

(***************************************************************************)
(* XYZ test (Game.hpp)                                                     *)
(***************************************************************************)
XYZ_Test(prevMove, trialMove) ==
    LET Y == trialMove.from
        Z == trialMove.to
    IN IF prevMove.to = Y
       THEN IF prevMove.from = Z /\ prevMove.flipsTopCard
            THEN "returnFalse"
            ELSE IF NCards(prevMove) = NCards(trialMove) THEN "returnTrue" ELSE "returnFalse"
       ELSE IF prevMove.to = Z \/ prevMove.from = Z THEN "returnFalse"
       ELSE IF prevMove.from = Y THEN "returnFalse"
       ELSE "keepLooking"

\* One trip of the loop of XYZ_Move, for the move prevMove made earlier: a ladder
\* move is tested as its move to the foundation, then as its move without the flip
XYZ_Look(trialMove, prevMove) ==
    LET ladder == IsLadderMove(prevMove)
        foundationMove ==
            SetFlips(NonStockMove(prevMove.from, LadderPileCode(prevMove), 1,
                                  prevMove.fromUpCount - NCards(prevMove)),
                     prevMove.flipsTopCard)
        first == IF ladder THEN XYZ_Test(foundationMove, trialMove) ELSE "keepLooking"
    IN IF first # "keepLooking" THEN first
       ELSE XYZ_Test(IF ladder THEN SetFlips(prevMove, FALSE) ELSE prevMove, trialMove)

\* XYZ_Move: the loop over views::reverse(movesMade) returns at the last move made
\* that does not say "keep looking", and false if there is none
XYZ_Move(trialMove, movesMade) ==
    LET deciding == {i \in 1 .. Len(movesMade) :
                        XYZ_Look(trialMove, movesMade[i]) # "keepLooking"}
        last == CHOOSE i \in deciding : \A k \in deciding : k <= i
    IN IF trialMove.from = Stock \/ trialMove.from = Waste THEN FALSE
       ELSE IF deciding = {} THEN FALSE
       ELSE XYZ_Look(trialMove, movesMade[last]) = "returnTrue"

\* XYZ_Filter that removes nothing
XYZ_FilterNothing(newMoves, movesMade) == newMoves

XYZ_Filter(newMoves, movesMade) ==
    SelectSeq(newMoves, LAMBDA mv : ~XYZ_Move(mv, movesMade))

(***************************************************************************)
(* Move generation (Game.cpp)                                              *)
(***************************************************************************)
NeedKingSpace(g) == g.kingSpaces < SuitsPerDeck

RECURSIVE ConcatIn(_, _, _)
\* What a loop appends in its trips lo .. hi, where trip i appends the sequence f[i]
ConcatIn(f, lo, hi) ==
    IF lo > hi THEN <<>>
    ELSE IF lo = hi THEN f[lo]
    ELSE LET mid == (lo + hi) \div 2
         IN ConcatIn(f, lo, mid) \o ConcatIn(f, mid + 1, hi)

\* One trip of the loop of DominantAvailableMoves over Waste and the tableau piles
DominantFromPile(g, minFoundationSize, p) ==
    LET pile == g.piles[p]
        card == Back(pile)
        up == IF p = Waste THEN 0 ELSE pile.up
    IN IF Size(pile) > 0
          /\ Rank(card) <= minFoundationSize + 1
          /\ CanMoveToFoundation(g, card)
       THEN <<SetFlips(NonStockMove(p, FoundationPileCode(Suit(card)), 1, up),
                       IsTableau(p) /\ up = 1 /\ Size(pile) > 1)>>
       ELSE <<>>

DominantFromPiles(g, minFoundationSize) ==
    ConcatIn([p \in Waste .. (TableauBase + TableauSize - 1) |->
                 DominantFromPile(g, minFoundationSize, p)],
             Waste, TableauBase + TableauSize - 1)

DominantAvailableMoves(g, minFoundationSize) ==
    LET stock == g.piles[Stock]
        fromStock == IF g.draw = 1 /\ Size(stock) > 0
                        /\ Rank(Back(stock)) <= minFoundationSize + 1
                        /\ CanMoveToFoundation(g, Back(stock))
                     THEN <<StockMove(FoundationPileCode(Suit(Back(stock))), 2, 1, FALSE)>>
                     ELSE <<>>
    IN DominantFromPiles(g, minFoundationSize) \o fromStock

\* The inner loop of MovesFromTableau, the trip for the pile `to`.  kingMoved is
\* set in the first trip that finds an empty pile for the king abottom fromPile's
\* face-up cards.
TableauToTableau(g, from, to) ==
    LET fromPile == g.piles[from]
        toPile == g.piles[to]
        fromTip == Back(fromPile)
        fromBase == Top(fromPile)
        upCount == fromPile.up
        kingToMove == Rank(fromBase) = King /\ Size(fromPile) > upCount
        kingMoved == kingToMove /\ \E t \in TableauBase .. (to - 1) :
                                      t # from /\ Size(g.piles[t]) = 0
        cardToCover == Back(toPile)
        toRank == Rank(cardToCover)
        moveCount == toRank - Rank(fromTip)
        uncovered == fromPile.cards[Size(fromPile) - moveCount]
    IN IF to = from THEN <<>>
       ELSE IF Size(toPile) = 0
       THEN IF ~kingMoved /\ kingToMove
            THEN <<SetFlips(NonStockMove(from, to, upCount, upCount), TRUE)>>
            ELSE <<>>
       ELSE IF Rank(fromTip) < toRank /\ toRank <= Rank(fromBase) + 1
               /\ OddRed(fromTip) = OddRed(cardToCover)
       THEN IF moveCount = upCount /\ (upCount < Size(fromPile) \/ NeedKingSpace(g))
            THEN <<SetFlips(NonStockMove(from, to, upCount, upCount),
                            upCount < Size(fromPile))>>
            ELSE IF (moveCount < upCount \/ upCount < Size(fromPile))
                    /\ CanMoveToFoundation(g, uncovered)
            THEN <<SetFlips(LadderMove(from, to, moveCount, upCount, uncovered),
                            upCount = moveCount + 1)>>
            ELSE <<>>
       ELSE <<>>

\* The outer loop of MovesFromTableau, the trip for the pile `from`
MovesFromTableauAt(g, from) ==
    LET fromPile == g.piles[from]
        fromTip == Back(fromPile)
        toFoundation ==
            IF CanMoveToFoundation(g, fromTip)
            THEN <<SetFlips(NonStockMove(from, FoundationPileCode(Suit(fromTip)), 1,
                                         fromPile.up),
                            fromPile.up = 1 /\ 1 < Size(fromPile))>>
            ELSE <<>>
    IN IF Size(fromPile) = 0 THEN <<>>
       ELSE toFoundation
            \o ConcatIn([to \in TableauCodes |-> TableauToTableau(g, from, to)],
                        TableauBase, TableauBase + TableauSize - 1)

MovesFromTableau(g) ==
    ConcatIn([from \in TableauCodes |-> MovesFromTableauAt(g, from)],
             TableauBase, TableauBase + TableauSize - 1)

Min(a, b) == IF a < b THEN a ELSE b

\* TalonSim::TopCard for a simulated waste of wSize cards
TalonTopCard(g, wSize) ==
    LET waste == g.piles[Waste].cards
        stock == g.piles[Stock].cards
    IN IF wSize <= Len(waste) THEN waste[wSize]
       ELSE stock[Len(stock) - (wSize - Len(waste)) + 1]

RECURSIVE TalonLoop(_, _, _)
\* The do-while loop of TalonCards.  t holds the simulated talon (the sizes of
\* waste and stock), the moves and recycles counted, and the result so far.
TalonLoop(g, maxRecycles, t) ==
    LET originalWasteSize == Size(g.piles[Waste])
        r1 == IF t.wSize > 0
              THEN Append(t.result, [card |-> TalonTopCard(g, t.wSize), nMoves |-> t.nMoves,
                                     drawCount |-> t.wSize - originalWasteSize,
                                     recycle |-> t.nRecycles > 0])
              ELSE t.result
        n == Min(g.draw, t.sSize)
        w2 == IF t.sSize > 0 THEN t.wSize + n ELSE 0
        s2 == IF t.sSize > 0 THEN t.sSize - n ELSE t.sSize + t.wSize
        m2 == IF t.sSize > 0 THEN t.nMoves + 1 ELSE t.nMoves
        c2 == IF t.sSize > 0 THEN t.nRecycles ELSE t.nRecycles + 1
    IN IF w2 # originalWasteSize /\ c2 <= maxRecycles
       THEN TalonLoop(g, maxRecycles, [wSize |-> w2, sSize |-> s2, nMoves |-> m2,
                                       nRecycles |-> c2, result |-> r1])
       ELSE r1

\* TalonCards that allows one recycle whatever the recycle count
TalonCardsAnyCount(g) ==
    LET wSize == Size(g.piles[Waste])
        sSize == Size(g.piles[Stock])
    IN IF wSize + sSize = 0 THEN <<>>
       ELSE TalonLoop(g, 1, [wSize |-> wSize, sSize |-> sSize, nMoves |-> 0,
                             nRecycles |-> 0, result |-> <<>>])

TalonCards(g) ==
    LET wSize == Size(g.piles[Waste])
        sSize == Size(g.piles[Stock])
        \* std::min(1U, RecycleLimit() - RecycleCount()) in unsigned arithmetic
        maxRecycles == IF g.limit = g.recycleCount THEN 0 ELSE 1
    IN IF wSize + sSize = 0 THEN <<>>
       ELSE TalonLoop(g, maxRecycles, [wSize |-> wSize, sSize |-> sSize, nMoves |-> 0,
                                       nRecycles |-> 0, result |-> <<>>])

\* The loop of MovesFromTalon over the tableau piles for one talon card, the trip
\* for the pile t.  The loop ends at the first empty pile if the card is a king.
TalonToTableau(g, tc, t) ==
    LET tPile == g.piles[t]
        mv == StockMove(t, tc.nMoves + 1, tc.drawCount, tc.recycle)
        ended == Rank(tc.card) = King
                 /\ \E e \in TableauBase .. (t - 1) : Size(g.piles[e]) = 0
    IN IF ended THEN <<>>
       ELSE IF Size(tPile) > 0
       THEN (IF Covers(tc.card, Back(tPile)) THEN <<mv>> ELSE <<>>)
       ELSE IF Rank(tc.card) = King THEN <<mv>>
       ELSE <<>>

\* A move of this talon card to its foundation pile is the best move for the card
TalonBest(g, tc, minFoundationSize) ==
    CanMoveToFoundation(g, tc.card) /\ Rank(tc.card) <= minFoundationSize + 1

\* The loop of MovesFromTalon, the trip for the talon card at i.  When one card is
\* drawn at a time the loop ends after the first card with a best move.
MovesFromTalonAt(g, talon, i, minFoundationSize) ==
    LET tc == talon[i]
        toFnd == IF CanMoveToFoundation(g, tc.card)
                 THEN <<StockMove(FoundationPileCode(Suit(tc.card)), tc.nMoves + 1,
                                  tc.drawCount, tc.recycle)>>
                 ELSE <<>>
        ended == g.draw = 1
                 /\ \E k \in 1 .. (i - 1) : TalonBest(g, talon[k], minFoundationSize)
    IN IF ended THEN <<>>
       ELSE IF TalonBest(g, tc, minFoundationSize) THEN toFnd
       ELSE toFnd \o ConcatIn([t \in TableauCodes |-> TalonToTableau(g, tc, t)],
                              TableauBase, TableauBase + TableauSize - 1)

MovesFromTalon(g, minFoundationSize) ==
    LET talon == TalonCards(g)
    IN ConcatIn([i \in 1 .. Len(talon) |-> MovesFromTalonAt(g, talon, i, minFoundationSize)],
                1, Len(talon))

\* The inner loop of MovesFromFoundation, the trip for the tableau pile t.  The
\* loop ends at the first empty pile if the top card is a king.
FoundationToTableau(g, f, t) ==
    LET tPile == g.piles[t]
        top == Back(g.piles[f])
        mv == NonStockMove(f, t, 1, 0)
        ended == Rank(top) = King
                 /\ \E e \in TableauBase .. (t - 1) : Size(g.piles[e]) = 0
    IN IF ended THEN <<>>
       ELSE IF Size(tPile) > 0
       THEN (IF Covers(top, Back(tPile)) THEN <<mv>> ELSE <<>>)
       ELSE IF Rank(top) = King THEN <<mv>>
       ELSE <<>>

\* The outer loop of MovesFromFoundation, the trip for the foundation pile f
MovesFromFoundationAt(g, f, minFoundationSize) ==
    IF Size(g.piles[f]) <= minFoundationSize + 2 THEN <<>>
    ELSE ConcatIn([t \in TableauCodes |-> FoundationToTableau(g, f, t)],
                  TableauBase, TableauBase + TableauSize - 1)

MovesFromFoundation(g, minFoundationSize) ==
    ConcatIn([f \in FoundationBase .. (FoundationBase + SuitsPerDeck - 1) |->
                 MovesFromFoundationAt(g, f, minFoundationSize)],
             FoundationBase, FoundationBase + SuitsPerDeck - 1)

NonDominantAvailableMoves(g, minFoundationSize) ==
    MovesFromTableau(g) \o MovesFromTalon(g, minFoundationSize)
        \o MovesFromFoundation(g, minFoundationSize)

\* AvailableMoves without _domMovesCache.pop_back()
AvailableMovesKeepsCache(g, movesMade) ==
    LET minFoundationSize == MinFoundationPileSize(g)
        cache == IF g.cache = <<>>
                 THEN XYZ_Filter(DominantAvailableMoves(g, minFoundationSize), movesMade)
                 ELSE g.cache
    IN IF minFoundationSize = CardsPerSuit THEN [avail |-> <<>>, game |-> g]
       ELSE IF cache # <<>>
       THEN [avail |-> <<cache[Len(cache)]>>, game |-> [g EXCEPT !.cache = cache]]
       ELSE [avail |-> XYZ_Filter(NonDominantAvailableMoves(g, minFoundationSize), movesMade),
             game |-> [g EXCEPT !.cache = <<>>]]

\* Game::AvailableMoves: the moves returned and the game with its cache updated
AvailableMoves(g, movesMade) ==
    LET minFoundationSize == MinFoundationPileSize(g)
        cache == IF g.cache = <<>>
                 THEN XYZ_Filter(DominantAvailableMoves(g, minFoundationSize), movesMade)
                 ELSE g.cache
    IN IF minFoundationSize = CardsPerSuit THEN [avail |-> <<>>, game |-> g]
       ELSE IF cache # <<>>
       THEN [avail |-> <<cache[Len(cache)]>>,
             game |-> [g EXCEPT !.cache = SubSeq(cache, 1, Len(cache) - 1)]]
       ELSE [avail |-> XYZ_Filter(NonDominantAvailableMoves(g, minFoundationSize), movesMade),
             game |-> [g EXCEPT !.cache = <<>>]]

(***************************************************************************)
(* Heuristic (KSolveAStar.cpp)                                             *)
(***************************************************************************)
RECURSIVE MisorderLoop(_, _, _)
MisorderLoop(cards, i, minRanks) ==
    IF i > Len(cards) THEN 0
    ELSE LET rank == Rank(cards[i])
             suit == Suit(cards[i])
         IN IF rank < minRanks[suit]
            THEN MisorderLoop(cards, i + 1, [minRanks EXCEPT ![suit] = rank])
            ELSE 1 + MisorderLoop(cards, i + 1, minRanks)

MisorderCount(cards) ==
    MisorderLoop(cards, 1, [s \in 0 .. (SuitsPerDeck - 1) |-> 14])

RECURSIVE SumOver(_, _)
SumOver(f, S) ==
    IF S = {} THEN 0
    ELSE LET x == CHOOSE y \in S : TRUE IN f[x] + SumOver(f, S \ {x})

\* MinimumMovesLeft that counts one draw for every card of the stock pile
MinimumMovesLeftDrawOne(g) ==
    LET waste == g.piles[Waste]
        stock == g.piles[Stock]
        tableauTerm == [t \in TableauCodes |->
            LET tPile == g.piles[t]
                downCount == Size(tPile) - tPile.up
            IN IF Size(tPile) > 0
               THEN Size(tPile) + MisorderCount(SubSeq(tPile.cards, 1, downCount + 1))
               ELSE 0]
    IN Size(waste) + Size(stock) + Size(stock)
          + (IF g.draw = 1 THEN MisorderCount(waste.cards) ELSE 0)
          + SumOver(tableauTerm, TableauCodes)

\* MinimumMovesLeft that counts the misordered cards of the waste pile for every draw setting
MinimumMovesLeftWasteAlways(g) ==
    LET waste == g.piles[Waste]
        stock == g.piles[Stock]
        tableauTerm == [t \in TableauCodes |->
            LET tPile == g.piles[t]
                downCount == Size(tPile) - tPile.up
            IN IF Size(tPile) > 0
               THEN Size(tPile) + MisorderCount(SubSeq(tPile.cards, 1, downCount + 1))
               ELSE 0]
    IN Size(waste) + Size(stock) + QuotientRoundedUp(Size(stock), g.draw)
          + MisorderCount(waste.cards) + SumOver(tableauTerm, TableauCodes)

MinimumMovesLeft(g) ==
    LET draw == g.draw
        waste == g.piles[Waste]
        stock == g.piles[Stock]
        talonCount == Size(waste) + Size(stock)
        base == talonCount + QuotientRoundedUp(Size(stock), draw)
        wasteTerm == IF draw = 1 THEN MisorderCount(waste.cards) ELSE 0
        tableauTerm == [t \in TableauCodes |->
            LET tPile == g.piles[t]
                downCount == Size(tPile) - tPile.up
            IN IF Size(tPile) > 0
               THEN Size(tPile) + MisorderCount(SubSeq(tPile.cards, 1, downCount + 1))
               ELSE 0]
    IN base + wasteTerm + SumOver(tableauTerm, TableauCodes)

(***************************************************************************)
(* Closed set (GameStateMemory.hpp, GameStateMemory.cpp)                   *)
(***************************************************************************)
RECURSIVE BitOrIn(_, _, _)
\* a | b for a and b below 2^w
BitOrIn(a, b, w) ==
    IF w = 1 THEN (IF a = 1 \/ b = 1 THEN 1 ELSE 0)
    ELSE LET h == w \div 2
             p == 2 ^ h
         IN BitOrIn(a % p, b % p, h) + p * BitOrIn(a \div p, b \div p, w - h)

\* a | b on the 30 bits the packed fields use
BitOr(a, b) == BitOrIn(a, b, 30)

RECURSIVE MajorBits(_, _, _)
\* std::accumulate(cards.end()-upCount+1, cards.end(), 0, acc<<1 | IsMajor)
MajorBits(cards, i, acc) ==
    IF i > Len(cards) THEN acc
    ELSE MajorBits(cards, i + 1, BitOr(acc * 2, IsMajor(cards[i])))

DeflateTableau(pile) ==
    LET upCount == pile.up
        isMajor == MajorBits(pile.cards, Len(pile.cards) - upCount + 2, 0)
        top == Top(pile)
    IN IF upCount = 0 THEN 0
       ELSE BitOr(BitOr(BitOr(Suit(top) * 16, Rank(top)) * 2048, isMajor) * 16, upCount)

\* GameState::GameState without the sizes of the foundation piles
GameStateKeyNoFoundation(g) ==
    <<SortSeq([i \in 1 .. TableauSize |-> DeflateTableau(g.piles[TableauBase + i - 1])],
              LAMBDA a, b : a < b),
      Size(g.piles[Stock]) % 32,
      [s \in 1 .. SuitsPerDeck |-> 0]>>

\* GameState::GameState without ranges::sort(tableauState)
GameStateKeyUnsorted(g) ==
    <<[i \in 1 .. TableauSize |-> DeflateTableau(g.piles[TableauBase + i - 1])],
      Size(g.piles[Stock]) % 32,
      [s \in 1 .. SuitsPerDeck |-> Size(g.piles[FoundationBase + s - 1]) % 16]>>

\* The key part of GameState::GameState: the sorted deflated tableau piles, the
\* stock size and the foundation sizes, in the order in which the constructor
\* packs them into _part0, _part1 and _part2 (21, 5 and 4 bits each; a pile
\* holds fewer than 32 cards and a foundation fewer than 16, so the fields do
\* not overlap and the packed parts are equal exactly when these fields are).
GameStateKey(g) ==
    LET tableauState == [i \in 1 .. TableauSize |-> DeflateTableau(g.piles[TableauBase + i - 1])]
    IN <<SortSeq(tableauState, LAMBDA a, b : a < b),
         Size(g.piles[Stock]) % 32,
         [s \in 1 .. SuitsPerDeck |-> Size(g.piles[FoundationBase + s - 1]) % 16]>>

\* _moveCount:16
MoveCountField(m) == m % 65536

\* moveCount <= oldState._moveCount for <
ShorterOrEqualPath(moveCount, oldCount) == moveCount <= oldCount

\* if (moveCount < oldState._moveCount)
ShorterPath(moveCount, oldCount) == moveCount < oldCount

\* GameStateMemory::IsShortPathToState, the part that lazy_emplace_l runs behind
\* the lock of the key's submap: the new contents of the set and the value returned
UpsertState(states, key, moveCount) ==
    IF key \notin DOMAIN states
    THEN [states |-> [k \in DOMAIN states \cup {key} |->
                         IF k = key THEN MoveCountField(moveCount) ELSE states[k]],
          result |-> TRUE]
    ELSE IF ShorterPath(moveCount, states[key])
    THEN [states |-> [states EXCEPT ![key] = MoveCountField(moveCount)], result |-> TRUE]
    ELSE [states |-> states, result |-> FALSE]

(***************************************************************************)
(* Move storage (MoveStorage.hpp, MoveStorage.cpp)                         *)
(***************************************************************************)
\* NodeX(-1U): no previous node
NONE == -1
\* the capacity of the current move sequence
SequenceCapacity == 500
\* -1U, the move count of an empty candidate solution
NoCount == 2147483647

MoveNode(mv, prevNode) == [move |-> mv, prev |-> prevNode]
DefaultNode == MoveNode(DefaultMove, NONE)

RECURSIVE PathTo(_, _)
\* The moves on the path from the root to node, following _prevNode links
PathTo(tree, node) ==
    IF node = NONE THEN <<>>
    ELSE Append(PathTo(tree, tree[node + 1].prev), tree[node + 1].move)

\* LoadMoveSequence that leaves out the move of the leaf
LoadMoveSequenceWithoutLeaf(tree, leaf) ==
    [seq |-> PathTo(tree, leaf.prev), startSize |-> Len(PathTo(tree, leaf.prev))]

\* MoveStorage::LoadMoveSequence: the new current sequence and start size
LoadMoveSequence(tree, leaf) ==
    LET prefix == PathTo(tree, leaf.prev)
    IN [seq |-> IF IsDefault(leaf.move) THEN prefix ELSE Append(prefix, leaf.move),
        startSize |-> Len(prefix)]

RECURSIVE MakeMovesIn(_, _)
\* The moves seq[r.lo] .. seq[r.hi] made in this order on the game r.game
MakeMovesIn(seq, r) ==
    IF r.lo > r.hi THEN r.game
    ELSE IF r.lo = r.hi THEN MakeMove(r.game, seq[r.lo])
    ELSE LET mid == (r.lo + r.hi) \div 2
         IN MakeMovesIn(seq, [game |-> MakeMovesIn(seq, [r EXCEPT !.hi = mid]),
                              lo |-> mid + 1, hi |-> r.hi])

\* MoveStorage::MakeSequenceMoves
MakeSequenceMoves(g, seq) == MakeMovesIn(seq, [game |-> g, lo |-> 1, hi |-> Len(seq)])

\* UpdateMoveTree that links each node to the node appended after it
AppendStemForward(tree, stem, stemEnd) ==
    [tree |-> tree \o [i \in 1 .. Len(stem) |->
                          MoveNode(stem[i], IF i = Len(stem) THEN stemEnd ELSE Len(tree) + i)],
     stemEnd |-> IF stem = <<>> THEN stemEnd ELSE Len(tree)]

\* UpdateMoveTree that writes its first node over the last node of the tree
AppendStemOverLast(tree, stem, stemEnd) ==
    LET base == SubSeq(tree, 1, Len(tree) - 1)
    IN [tree |-> base \o [i \in 1 .. Len(stem) |->
                             MoveNode(stem[i], IF i = 1 THEN stemEnd ELSE Len(base) + i - 2)],
        stemEnd |-> IF stem = <<>> THEN stemEnd ELSE Len(base) + Len(stem) - 1]

\* UpdateMoveTree that returns the index after the last node it has written
AppendStemEndsPastTree(tree, stem, stemEnd) ==
    [tree |-> tree \o [i \in 1 .. Len(stem) |->
                          MoveNode(stem[i], IF i = 1 THEN stemEnd ELSE Len(tree) + i - 2)],
     stemEnd |-> Len(tree) + Len(stem)]

\* UpdateMoveTree that never updates stemEnd in its loop
AppendStemFlat(tree, stem, stemEnd) ==
    [tree |-> tree \o [i \in 1 .. Len(stem) |-> MoveNode(stem[i], stemEnd)],
     stemEnd |-> stemEnd]

\* The loop of MoveStorage::UpdateMoveTree: each move of the stem becomes a node
\* whose _prevNode is the node appended before it, the first one's is stemEnd
AppendStem(tree, stem, stemEnd) ==
    [tree |-> tree \o [i \in 1 .. Len(stem) |->
                          MoveNode(stem[i], IF i = 1 THEN stemEnd ELSE Len(tree) + i - 2)],
     stemEnd |-> IF stem = <<>> THEN stemEnd ELSE Len(tree) + Len(stem) - 1]

RECURSIVE InsertDescending(_, _)
InsertDescending(sorted, br) ==
    IF sorted = <<>> THEN <<br>>
    ELSE IF Head(sorted).offset >= br.offset
    THEN <<Head(sorted)>> \o InsertDescending(Tail(sorted), br)
    ELSE <<br>> \o sorted

\* UpdateFringe without the sort
SortBranchesNot(branches) == branches

RECURSIVE SortBranches(_)
\* ranges::sort(_branches, ranges::greater(), &MovePair::_offset); branches with
\* equal offsets keep their order, as the insertion sort used for short ranges does
SortBranches(branches) ==
    IF branches = <<>> THEN <<>>
    ELSE InsertDescending(SortBranches(SubSeq(branches, 1, Len(branches) - 1)),
                          branches[Len(branches)])

\* ShareableIndexedPriorityQueue::Emplace: grow to index+1 stacks, push on stack index
Emplace(stacks, index, value) ==
    LET grown == IF Len(stacks) < index + 1
                 THEN stacks \o [i \in 1 .. (index + 1 - Len(stacks)) |-> <<>>]
                 ELSE stacks
    IN [grown EXCEPT ![index + 1] = Append(@, value)]

\* find_if that finds the last non-empty stack
LastNonEmpty(stacks) ==
    IF \E i \in 1 .. Len(stacks) : stacks[i] # <<>>
    THEN (CHOOSE i \in 1 .. Len(stacks) :
             stacks[i] # <<>> /\ \A j \in (i + 1) .. Len(stacks) : stacks[j] = <<>>) - 1
    ELSE Len(stacks)

\* The scan of Pop: the index of the first non-empty stack, or the number of stacks
FirstNonEmpty(stacks) ==
    IF \E i \in 1 .. Len(stacks) : stacks[i] # <<>>
    THEN (CHOOSE i \in 1 .. Len(stacks) :
             stacks[i] # <<>> /\ \A j \in 1 .. (i - 1) : stacks[j] = <<>>) - 1
    ELSE Len(stacks)

\* the number of tries of Pop
PopTries == 5

(***************************************************************************)
(* The worker (KSolveAStar.cpp)                                            *)
(***************************************************************************)
(***************************************************************************)
(* The rules of Klondike, as the yardstick for "winning" and "minimal".    *)
(* A position is played one step at a time: draw from the stock (turning   *)
(* the waste pile over first if the stock is empty and the recycle limit   *)
(* allows), or move face-up cards between waste, tableau and foundations.  *)
(* Every step counts one move.                                             *)
(***************************************************************************)
RECURSIVE Reversed(_)
Reversed(s) == IF s = <<>> THEN <<>> ELSE Append(Reversed(Tail(s)), Head(s))

IsRed(c) == Suit(c) % 2 = 1
RawFits(c, pile) ==
    IF pile = <<>> THEN Rank(c) = King
    ELSE /\ Rank(c) + 1 = Rank(pile[Len(pile)])
         /\ IsRed(c) # IsRed(pile[Len(pile)])

RawDeal(g) ==
    LET d == Deal(g)
    IN [tab |-> [i \in 1 .. TableauSize |-> d.piles[TableauBase + i - 1].cards],
        up |-> [i \in 1 .. TableauSize |-> 1],
        stock |-> d.piles[Stock].cards, waste |-> <<>>,
        fnd |-> [s \in 1 .. SuitsPerDeck |-> 0], rc |-> 0]

RawWon(p) == \A s \in 1 .. SuitsPerDeck : p.fnd[s] = CardsPerSuit

RawDrawFrom(p, draw) ==
    LET n == Min(draw, Len(p.stock))
        L == Len(p.stock)
    IN [p EXCEPT !.waste = @ \o [i \in 1 .. n |-> p.stock[L + 1 - i]],
                 !.stock = SubSeq(@, 1, L - n)]

RawDraw(p, draw, limit) ==
    IF p.stock # <<>> THEN {RawDrawFrom(p, draw)}
    ELSE IF p.waste # <<>> /\ p.rc < limit
    THEN {RawDrawFrom([p EXCEPT !.stock = Reversed(p.waste), !.waste = <<>>,
                                !.rc = @ + 1], draw)}
    ELSE {}

\* tableau pile f after n cards have left it: a face-down top card is turned
RawTaken(p, f, n) ==
    LET left == Len(p.tab[f]) - n
    IN [p EXCEPT !.tab[f] = SubSeq(@, 1, left),
                 !.up[f] = IF left = 0 THEN 0 ELSE IF @ = n THEN 1 ELSE @ - n]

RawToFoundation(p, c) == [p EXCEPT !.fnd[Suit(c) + 1] = @ + 1]
RawGoes(p, c) == p.fnd[Suit(c) + 1] = Rank(c)

RawFromWaste(p) ==
    IF p.waste = <<>> THEN {}
    ELSE LET c == p.waste[Len(p.waste)]
             q == [p EXCEPT !.waste = SubSeq(@, 1, Len(@) - 1)]
         IN (IF RawGoes(p, c) THEN {RawToFoundation(q, c)} ELSE {})
            \cup {[q EXCEPT !.tab[t] = Append(@, c), !.up[t] = @ + 1] :
                    t \in {u \in 1 .. TableauSize : RawFits(c, p.tab[u])}}

RawFromTableau(p) ==
    UNION {
        LET pile == p.tab[f]
            c == pile[Len(pile)]
        IN (IF RawGoes(p, c) THEN {RawToFoundation(RawTaken(p, f, 1), c)} ELSE {})
           \cup UNION {
                 {[RawTaken(p, f, n) EXCEPT
                        !.tab[t] = @ \o SubSeq(pile, Len(pile) - n + 1, Len(pile)),
                        !.up[t] = @ + n] :
                    t \in {u \in (1 .. TableauSize) \ {f} :
                             RawFits(pile[Len(pile) - n + 1], p.tab[u])}} :
                 n \in 1 .. p.up[f]} :
        f \in {u \in 1 .. TableauSize : p.tab[u] # <<>>}}

RawFromFoundation(p) ==
    UNION {
        LET c == Card(s - 1, p.fnd[s] - 1)
        IN {[p EXCEPT !.fnd[s] = @ - 1, !.tab[t] = Append(@, c), !.up[t] = @ + 1] :
              t \in {u \in 1 .. TableauSize : RawFits(c, p.tab[u])}} :
        s \in {u \in 1 .. SuitsPerDeck : p.fnd[u] > 0}}

RawSteps(p, draw, limit) ==
    RawDraw(p, draw, limit) \cup RawFromWaste(p) \cup RawFromTableau(p)
        \cup RawFromFoundation(p)

\* breadth first: the positions at distance depth, and all positions seen so far
RECURSIVE RawSearch(_, _, _, _, _)
RawSearch(frontier, seen, depth, draw, limit) ==
    IF \E p \in frontier : RawWon(p) THEN depth
    ELSE IF frontier = {} THEN NONE
    ELSE LET next == UNION {RawSteps(p, draw, limit) : p \in frontier} \ seen
         IN RawSearch(next, seen \cup next, depth + 1, draw, limit)

\* The smallest number of moves that wins the deal of g, or NONE if none does
RawMinimum(g) == RawSearch({RawDeal(g)}, {RawDeal(g)}, 0, g.draw, g.limit)

(***************************************************************************)
(* State                                                                   *)
(***************************************************************************)
VARIABLES
    input,              \* the arguments of KSolveAStar: game, moveTreeLimit, nThreads
    run,                \* 1: the call with one thread, 2: with nThreads threads, 3: on the played game
    moveTree,           \* SharedMoveStorage::_moveTree
    fringe,             \* SharedMoveStorage::_fringe, the stacks by index
    firstTime,          \* SharedMoveStorage::_firstTime
    initialMinMoves,    \* SharedMoveStorage::_initialMinMoves
    moveTreeSizeLimit,  \* SharedMoveStorage::_moveTreeSizeLimit
    states,             \* GameStateMemory::_states: key -> move count
    minSolution,        \* CandidateSolution: _sol and _count
    wk,                 \* per worker: the WorkerState and the position in Worker()
    result,             \* the KSolveAStarResult of the current call, or NoResult
    ref,                \* the result of the call with one thread, or NoResult
    recorded,           \* history: how often the current call has stored a solution
    mem,                \* the callers of IsShortPathToState outside a search, and the submap locks
    play                \* two games played move by move outside a search, from the same deal

vars == <<input, run, moveTree, fringe, firstTime, initialMinMoves, moveTreeSizeLimit,
          states, minSolution, wk, result, ref, recorded, mem, play>>

MaxThreads == 2
Workers == 1 .. MaxThreads
NoResult == [code |-> "none"]
\* the default moveTreeLimit of KSolveAStar
DefaultTreeLimit == 12000000

\* A deck that lists its first cards as <<suit, rank>> pairs; the cards it does
\* not list follow in ascending order.
RECURSIVE Ascending(_)
Ascending(S) ==
    IF S = {} THEN <<>>
    ELSE LET m == CHOOSE x \in S : \A y \in S : x <= y IN <<m>> \o Ascending(S \ {m})

DeckOf(pairs) ==
    LET listed == [i \in 1 .. Len(pairs) |-> Card(pairs[i][1], pairs[i][2])]
    IN listed \o Ascending((0 .. (CardsPerDeck - 1)) \ {listed[i] : i \in 1 .. Len(listed)})

\* A deal with a short search: the root has three branches, the best one wins
DeckShort ==
    DeckOf(<< <<0,3>>, <<2,0>>, <<1,1>>, <<3,1>>, <<3,0>>, <<2,3>>, <<3,3>>, <<1,3>>,
              <<2,2>>, <<3,2>>, <<1,2>>, <<0,0>>, <<2,1>>, <<1,0>>, <<0,1>>, <<0,2>> >>)
\* A deal that is won by the moves made without a choice
DeckStraight ==
    DeckOf(<< <<1,2>>, <<0,3>>, <<1,3>>, <<3,2>>, <<2,2>>, <<1,0>>, <<2,1>>, <<2,0>>,
              <<0,2>>, <<3,0>>, <<0,1>>, <<0,0>>, <<3,1>>, <<1,1>>, <<2,3>>, <<3,3>> >>)
\* A deal whose search ends at once when three cards are drawn at a time
DeckDeadEnd ==
    DeckOf(<< <<3,1>>, <<0,3>>, <<3,0>>, <<1,2>>, <<2,2>>, <<3,3>>, <<0,2>>, <<0,0>>,
              <<1,1>>, <<2,1>>, <<2,0>>, <<0,1>>, <<1,0>>, <<3,2>>, <<1,3>>, <<2,3>> >>)
\* A deal with a longer search
DeckLong ==
    DeckOf(<< <<1,3>>, <<0,1>>, <<3,1>>, <<1,1>>, <<1,0>>, <<3,2>>, <<2,2>>, <<2,3>>,
              <<2,1>>, <<1,2>>, <<0,0>>, <<2,0>>, <<0,2>>, <<3,3>>, <<0,3>>, <<3,0>> >>)
\* A deal in which the moves made without a choice never end
DeckCycle ==
    DeckOf(<< <<2,2>>, <<0,2>>, <<3,1>>, <<0,0>>, <<1,1>>, <<1,3>>, <<2,3>>, <<3,2>>,
              <<0,1>>, <<3,0>>, <<2,0>>, <<3,3>>, <<0,3>>, <<1,0>>, <<1,2>>, <<2,1>> >>)
\* A deal for drawing one card at a time
DeckOne ==
    DeckOf(<< <<2,3>>, <<3,2>>, <<1,1>>, <<0,3>>, <<2,0>>, <<0,1>>, <<3,3>>, <<1,0>>,
              <<1,3>>, <<2,1>>, <<1,2>>, <<3,0>>, <<0,0>>, <<3,1>>, <<2,2>>, <<0,2>> >>)

\* A deal whose waste pile gathers cards above lower cards of their suit
DeckWaste ==
    DeckOf(<< <<2,3>>, <<0,0>>, <<1,0>>, <<2,2>>, <<2,1>>, <<3,2>>, <<0,1>>, <<1,1>>,
              <<3,0>>, <<0,2>>, <<1,2>>, <<0,3>>, <<1,3>>, <<3,1>>, <<2,0>>, <<3,3>> >>)

Scenario(deck, draw, recycleLimit, treeLimit, nThreads) ==
    [game |-> NewGame(deck, draw, recycleLimit), moveTreeLimit |-> treeLimit,
     nThreads |-> nThreads]

\* The calls of KSolveAStar that are explored
Scenarios ==
    {Scenario(DeckShort, 3, limit, treeLimit, 1) :
        limit \in {0, 1}, treeLimit \in {0, 1, DefaultTreeLimit}}
    \cup {Scenario(DeckShort, 3, limit, treeLimit, MaxThreads) :
        limit \in {0, 1}, treeLimit \in {0, 1}}
    \cup {Scenario(DeckStraight, 3, 1, DefaultTreeLimit, n) : n \in {1, MaxThreads}}
    \cup {Scenario(DeckDeadEnd, 3, 1, DefaultTreeLimit, n) : n \in {1, MaxThreads}}
    \cup {Scenario(DeckLong, 3, 1, treeLimit, 1) : treeLimit \in {5, DefaultTreeLimit}}
    \cup {Scenario(DeckCycle, 3, 0, DefaultTreeLimit, 1)}
    \cup {Scenario(DeckOne, 1, 1, 0, 1)}
    \cup {Scenario(DeckLong, 3, 1, 0, MaxThreads)}

\* No game played outside the search
NoPlay == <<>>

\* No caller of IsShortPathToState outside the search
NoMem == [keys |-> <<>>, sub |-> <<>>, lock |-> <<>>, call |-> <<>>, log |-> <<>>]

\* A worker before Worker() starts: the copy of the master WorkerState
NewWorker(g) ==
    [pc |-> "loop", game |-> CopyGame(g), seq |-> <<>>, leaf |-> DefaultNode,
     startSize |-> 0, branches |-> <<>>, avail |-> <<>>, bi |-> 0, minMoves0 |-> 0,
     movesMadeCount |-> 0, tries |-> 0, index |-> 0, stemEnd |-> NONE]
\* A thread that does not exist: not created, or joined
NoWorker(g) == [NewWorker(g) EXCEPT !.pc = "idle"]

\* KSolveAStar up to RunWorkers: the shared state after Start, and the workers
Started(g, treeLimit, nThreads) ==
    [moveTree |-> <<>>, fringe |-> <<>>, firstTime |-> TRUE,
     initialMinMoves |-> MinimumMovesLeft(g), moveTreeSizeLimit |-> treeLimit,
     states |-> <<>>, minSolution |-> [sol |-> <<>>, count |-> NoCount],
     wk |-> [w \in Workers |-> IF w <= nThreads THEN NewWorker(g) ELSE NoWorker(g)]]

Init ==
    /\ input \in Scenarios
    /\ run = 1
    /\ ref = NoResult
    /\ result = NoResult
    /\ recorded = 0
    /\ mem = NoMem
    /\ play = NoPlay
    /\ LET st == Started(input.game, input.moveTreeLimit, 1)
       IN /\ moveTree = st.moveTree
          /\ fringe = st.fringe
          /\ firstTime = st.firstTime
          /\ initialMinMoves = st.initialMinMoves
          /\ moveTreeSizeLimit = st.moveTreeSizeLimit
          /\ states = st.states
          /\ minSolution = st.minSolution
          /\ wk = st.wk

SetWorker(w, r) == wk' = [wk EXCEPT ![w] = r]
\* A worker at the top of the loop.  PopNextMoveSequence, Deal and LoadMoveSequence
\* overwrite the leaf, the piles and the move sequence before anything reads them,
\* and the other fields are locals of the loop body: they are written here with the
\* values the next trip starts from.  The dominant-move cache outlives the trip.
BackToLoop(r) ==
    [r EXCEPT !.pc = "loop", !.game = Deal(@), !.seq = <<>>, !.leaf = DefaultNode,
              !.startSize = 0, !.avail = <<>>, !.bi = 0, !.minMoves0 = 0,
              !.movesMadeCount = 0, !.tries = 0, !.index = 0, !.stemEnd = NONE]
Finished(r) == [BackToLoop(r) EXCEPT !.pc = "done"]

\* OverLimit with >= for >
OverLimitAtLimit == Len(moveTree) >= moveTreeSizeLimit

\* SharedMoveStorage::OverLimit
OverLimit == Len(moveTree) > moveTreeSizeLimit

\* while (!moveStorage.Shared().OverLimit() ...
CheckLimit(w) ==
    /\ wk[w].pc = "loop"
    /\ SetWorker(w, IF OverLimit THEN Finished(wk[w]) ELSE [wk[w] EXCEPT !.pc = "pop"])
    /\ UNCHANGED <<input, run, moveTree, fringe, firstTime, initialMinMoves,
                   moveTreeSizeLimit, states, minSolution, result, ref, recorded, mem, play>>

\* PopNextMoveSequence: if (_shared._firstTime)
ReadFirstTime(w) ==
    /\ wk[w].pc = "pop"
    /\ SetWorker(w, [wk[w] EXCEPT !.pc = IF firstTime THEN "first" ELSE "scan", !.tries = 0])
    /\ UNCHANGED <<input, run, moveTree, fringe, firstTime, initialMinMoves,
                   moveTreeSizeLimit, states, minSolution, result, ref, recorded, mem, play>>

\* PopNextMoveSequence: _shared._firstTime = false; return _shared._initialMinMoves;
ClearFirstTime(w) ==
    /\ wk[w].pc = "first"
    /\ firstTime' = FALSE
    /\ SetWorker(w, [wk[w] EXCEPT !.pc = "test", !.minMoves0 = initialMinMoves])
    /\ UNCHANGED <<input, run, moveTree, fringe, initialMinMoves,
                   moveTreeSizeLimit, states, minSolution, result, ref, recorded, mem, play>>

\* One more try of Pop has failed: try again, or return none (PopNextMoveSequence
\* then returns 0, which ends the worker's loop)
TryAgain(r) ==
    IF r.tries + 1 < PopTries THEN [r EXCEPT !.pc = "scan", !.tries = @ + 1]
    ELSE Finished(r)

\* Pop: the scan for the first non-empty stack
Scan(w) ==
    /\ wk[w].pc = "scan"
    /\ LET index == FirstNonEmpty(fringe)
       IN SetWorker(w, IF index < Len(fringe)
                       THEN [wk[w] EXCEPT !.pc = "lock", !.index = index]
                       ELSE TryAgain(wk[w]))
    /\ UNCHANGED <<input, run, moveTree, fringe, firstTime, initialMinMoves,
                   moveTreeSizeLimit, states, minSolution, result, ref, recorded, mem, play>>

\* Pop that takes stack.front() and erases it
PopLockedFront(w) ==
    /\ wk[w].pc = "lock"
    /\ LET stack == fringe[wk[w].index + 1]
       IN IF stack # <<>>
          THEN /\ fringe' = [fringe EXCEPT ![wk[w].index + 1] = Tail(@)]
               /\ SetWorker(w, [wk[w] EXCEPT !.pc = "test", !.leaf = Head(stack),
                                             !.minMoves0 = wk[w].index + initialMinMoves])
          ELSE /\ fringe' = fringe
               /\ SetWorker(w, TryAgain(wk[w]))
    /\ UNCHANGED <<input, run, moveTree, firstTime, initialMinMoves,
                   moveTreeSizeLimit, states, minSolution, result, ref, recorded, mem, play>>

\* Pop without pop_back
PopLockedKeeps(w) ==
    /\ wk[w].pc = "lock"
    /\ LET stack == fringe[wk[w].index + 1]
       IN SetWorker(w, IF stack # <<>>
                       THEN [wk[w] EXCEPT !.pc = "test", !.leaf = stack[Len(stack)],
                                          !.minMoves0 = wk[w].index + initialMinMoves]
                       ELSE TryAgain(wk[w]))
    /\ UNCHANGED <<input, run, moveTree, fringe, firstTime, initialMinMoves,
                   moveTreeSizeLimit, states, minSolution, result, ref, recorded, mem, play>>

\* Pop: under the stack's mutex, take the top leaf if the stack still has one
PopLocked(w) ==
    /\ wk[w].pc = "lock"
    /\ LET stack == fringe[wk[w].index + 1]
       IN IF stack # <<>>
          THEN /\ fringe' = [fringe EXCEPT ![wk[w].index + 1] = SubSeq(@, 1, Len(@) - 1)]
               /\ SetWorker(w, [wk[w] EXCEPT !.pc = "test", !.leaf = stack[Len(stack)],
                                             !.minMoves0 = wk[w].index + initialMinMoves])
          ELSE /\ fringe' = fringe
               /\ SetWorker(w, TryAgain(wk[w]))
    /\ UNCHANGED <<input, run, moveTree, firstTime, initialMinMoves,
                   moveTreeSizeLimit, states, minSolution, result, ref, recorded, mem, play>>

\* ShareMoves without the test for staged branches
NextBranchAlwaysShares(r) ==
    IF r.bi < Len(r.avail) THEN [r EXCEPT !.pc = "branch", !.bi = @ + 1]
    ELSE [r EXCEPT !.pc = "tree"]

\* The position after the branch at bi has been dealt with
NextBranch(r) ==
    IF r.bi < Len(r.avail) THEN [r EXCEPT !.pc = "branch", !.bi = @ + 1]
    ELSE IF r.branches = <<>> THEN BackToLoop(r)
    ELSE [r EXCEPT !.pc = "tree"]

\* ... && minMoves0 && minMoves0 < minSolution.MoveCount()), and the body of the loop
\* up to MakeAutoMoves: Deal, LoadMoveSequence and MakeSequenceMoves.
\* LoadMoveSequence has no test of its own for the capacity of the current sequence:
\* push_front and push_back of static_deque test it with FRYSTL_ASSERT, which stops
\* the program when FRYSTL_DEBUG is defined (pc "aborted") and is empty otherwise
\* (pc "overrun": the moves are written past the end of the array).
Expand(w) ==
    /\ wk[w].pc = "test"
    /\ LET r == wk[w]
           loaded == LoadMoveSequence(moveTree, r.leaf)
       IN \E frystlDebug \in (IF Len(loaded.seq) <= SequenceCapacity THEN {FALSE} ELSE BOOLEAN) :
            SetWorker(w,
              IF r.minMoves0 = 0 \/ ~(r.minMoves0 < minSolution.count) THEN Finished(r)
              ELSE IF Len(loaded.seq) > SequenceCapacity
              THEN [r EXCEPT !.pc = IF frystlDebug THEN "aborted" ELSE "overrun",
                             !.seq = loaded.seq]
              ELSE [r EXCEPT !.pc = "auto", !.seq = loaded.seq,
                             !.game = MakeSequenceMoves(Deal(r.game), loaded.seq),
                             !.startSize = loaded.startSize])
    /\ UNCHANGED <<input, run, moveTree, fringe, firstTime, initialMinMoves,
                   moveTreeSizeLimit, states, minSolution, result, ref, recorded, mem, play>>

\* WorkerState::MakeAutoMoves, one trip of its loop: AvailableMoves, and for a single
\* move PushStem and MakeMove.  PushStem tests the size of the current sequence
\* against its capacity, prints the sequence and calls assert(false).  Built with
\* assertions the program stops there (pc "aborted"); built with NDEBUG the assert
\* is empty, push_back follows, and static_deque's own test is FRYSTL_ASSERT2, empty
\* unless FRYSTL_DEBUG is defined: the move is written past the end of the array
\* (pc "overrun", after which nothing is known about the thread).  After the loop
\* the worker takes the count of the moves made and looks at the moves available.
AutoMove(w) ==
    /\ wk[w].pc = "auto"
    /\ \E asserts \in (IF Len(wk[w].seq) < SequenceCapacity THEN {TRUE} ELSE BOOLEAN) :
         LET r == wk[w]
             am == AvailableMoves(r.game, r.seq)
             r1 == [r EXCEPT !.game = am.game, !.avail = am.avail,
                             !.movesMadeCount = MoveCount(r.seq), !.bi = 0]
         IN SetWorker(w,
              IF Len(am.avail) = 1
              THEN IF Len(r.seq) < SequenceCapacity
                   THEN [r EXCEPT !.game = MakeMove(am.game, am.avail[1]),
                                  !.seq = Append(@, am.avail[1])]
                   ELSE IF asserts
                   THEN [r EXCEPT !.pc = "aborted", !.game = am.game]
                   ELSE [r EXCEPT !.pc = "overrun",
                                  !.game = MakeMove(am.game, am.avail[1]),
                                  !.seq = Append(@, am.avail[1])]
              ELSE IF am.avail = <<>>
              THEN IF GameOver(am.game) THEN [r1 EXCEPT !.pc = "replace"]
                   ELSE BackToLoop(r1)
              ELSE NextBranch(r1))
    /\ UNCHANGED <<input, run, moveTree, fringe, firstTime, initialMinMoves,
                   moveTreeSizeLimit, states, minSolution, result, ref, recorded, mem, play>>

\* CandidateSolution::ReplaceIfShorter: the test outside the mutex
ReplaceCheck(w) ==
    /\ wk[w].pc = "replace"
    /\ SetWorker(w, IF minSolution.sol = <<>> \/ wk[w].movesMadeCount < minSolution.count
                    THEN [wk[w] EXCEPT !.pc = "replaceLocked"]
                    ELSE BackToLoop(wk[w]))
    /\ UNCHANGED <<input, run, moveTree, fringe, firstTime, initialMinMoves,
                   moveTreeSizeLimit, states, minSolution, result, ref, recorded, mem, play>>

\* ReplaceIfShorter that copies the sequence without its last move
ReplaceLockedDropsLast(w) ==
    /\ wk[w].pc = "replaceLocked"
    /\ minSolution' = IF minSolution.sol = <<>> \/ wk[w].movesMadeCount < minSolution.count
                      THEN [sol |-> SubSeq(wk[w].seq, 1, Len(wk[w].seq) - 1),
                            count |-> wk[w].movesMadeCount]
                      ELSE minSolution
    /\ recorded' = IF minSolution.sol = <<>> \/ wk[w].movesMadeCount < minSolution.count
                    THEN recorded + 1 ELSE recorded
    /\ SetWorker(w, BackToLoop(wk[w]))
    /\ UNCHANGED <<input, run, moveTree, fringe, firstTime, initialMinMoves,
                   moveTreeSizeLimit, states, result, ref, mem, play>>

\* ReplaceIfShorter without the second test under the mutex
ReplaceLockedNoRecheck(w) ==
    /\ wk[w].pc = "replaceLocked"
    /\ minSolution' = [sol |-> wk[w].seq, count |-> wk[w].movesMadeCount]
    /\ recorded' = recorded + 1
    /\ SetWorker(w, BackToLoop(wk[w]))
    /\ UNCHANGED <<input, run, moveTree, fringe, firstTime, initialMinMoves,
                   moveTreeSizeLimit, states, result, ref, mem, play>>

\* CandidateSolution::ReplaceIfShorter: the test and the assignment under the mutex
ReplaceLocked(w) ==
    /\ wk[w].pc = "replaceLocked"
    /\ minSolution' = IF minSolution.sol = <<>> \/ wk[w].movesMadeCount < minSolution.count
                      THEN [sol |-> wk[w].seq, count |-> wk[w].movesMadeCount]
                      ELSE minSolution
    /\ recorded' = IF minSolution.sol = <<>> \/ wk[w].movesMadeCount < minSolution.count
                    THEN recorded + 1 ELSE recorded
    /\ SetWorker(w, BackToLoop(wk[w]))
    /\ UNCHANGED <<input, run, moveTree, fringe, firstTime, initialMinMoves,
                   moveTreeSizeLimit, states, result, ref, mem, play>>

\* The loop over the available moves without the test against the best solution
BoundTestAlwaysPasses(w) ==
    /\ wk[w].pc = "branch"
    /\ SetWorker(w, [wk[w] EXCEPT !.pc = "closed",
                                  !.game = MakeMove(@, wk[w].avail[wk[w].bi])])
    /\ UNCHANGED <<input, run, moveTree, fringe, firstTime, initialMinMoves,
                   moveTreeSizeLimit, states, minSolution, result, ref, recorded, mem, play>>

\* for (auto mv: availableMoves): MakeMove and the test against the best solution
BoundTest(w) ==
    /\ wk[w].pc = "branch"
    /\ LET r == wk[w]
           mv == r.avail[r.bi]
           child == MakeMove(r.game, mv)
           made == r.movesMadeCount + NMoves(mv)
           pass == minSolution.sol = <<>>
                   \/ made + MinimumMovesLeft(child) < minSolution.count
       IN SetWorker(w, IF pass THEN [r EXCEPT !.pc = "closed", !.game = child]
                       ELSE NextBranch([r EXCEPT !.game = UnMakeMove(child, mv)]))
    /\ UNCHANGED <<input, run, moveTree, fringe, firstTime, initialMinMoves,
                   moveTreeSizeLimit, states, minSolution, result, ref, recorded, mem, play>>

\* closedList.IsShortPathToState(game, made), PushBranch and UnMakeMove
ClosedTest(w) ==
    /\ wk[w].pc = "closed"
    /\ LET r == wk[w]
           mv == r.avail[r.bi]
           made == r.movesMadeCount + NMoves(mv)
           up == UpsertState(states, GameStateKey(r.game), made)
           minMoves == made + MinimumMovesLeft(r.game)
           r1 == [r EXCEPT !.game = UnMakeMove(r.game, mv),
                           !.branches = IF up.result
                                        THEN Append(@, [mv |-> mv,
                                                        offset |-> minMoves - initialMinMoves])
                                        ELSE @]
       IN /\ states' = up.states
          /\ SetWorker(w, IF up.result /\ minMoves < initialMinMoves
                          THEN [r1 EXCEPT !.pc = "aborted"]
                          ELSE NextBranch(r1))
    /\ UNCHANGED <<input, run, moveTree, fringe, firstTime, initialMinMoves,
                   moveTreeSizeLimit, minSolution, result, ref, recorded, mem, play>>

\* ShareMoves: UpdateMoveTree under the tree mutex, and the sort of UpdateFringe
UpdateMoveTree(w) ==
    /\ wk[w].pc = "tree"
    /\ LET r == wk[w]
           up == AppendStem(moveTree, SubSeq(r.seq, r.startSize + 1, Len(r.seq)), r.leaf.prev)
       IN /\ moveTree' = up.tree
          /\ SetWorker(w, [r EXCEPT !.pc = "fringe", !.stemEnd = up.stemEnd, !.bi = 1,
                                    !.branches = SortBranches(@)])
    /\ UNCHANGED <<input, run, fringe, firstTime, initialMinMoves,
                   moveTreeSizeLimit, states, minSolution, result, ref, recorded, mem, play>>

\* UpdateFringe: one Emplace; after the last one, _branches.clear()
UpdateFringe(w) ==
    /\ wk[w].pc = "fringe"
    /\ LET r == wk[w]
           br == r.branches[r.bi]
       IN /\ fringe' = Emplace(fringe, br.offset, MoveNode(br.mv, r.stemEnd))
          /\ SetWorker(w, IF r.bi < Len(r.branches) THEN [r EXCEPT !.bi = @ + 1]
                          ELSE BackToLoop([r EXCEPT !.branches = <<>>]))
    /\ UNCHANGED <<input, run, moveTree, firstTime, initialMinMoves,
                   moveTreeSizeLimit, states, minSolution, result, ref, recorded, mem, play>>

\* ShareableIndexedPriorityQueue::Size: the sum of the sizes of the stacks
SumLen(stacks) ==
    Cardinality(UNION {{<<i, j>> : j \in 1 .. Len(stacks[i])} : i \in 1 .. Len(stacks)})

\* KSolveAStar after RunWorkers has joined every thread and destroyed the
\* WorkerStates: the result is built, and the storage of the call is gone
Return ==
    /\ result = NoResult
    /\ \A w \in Workers : wk[w].pc \in {"done", "idle"}
    /\ result' = [code |-> IF Len(minSolution.sol) > 0
                           THEN (IF OverLimit THEN "Solved" ELSE "SolvedMinimal")
                           ELSE (IF OverLimit THEN "GaveUp" ELSE "Impossible"),
                  solution |-> minSolution.sol,
                  branchCount |-> Cardinality(DOMAIN states),
                  moveTreeSize |-> Len(moveTree),
                  finalFringeStackSize |-> SumLen(fringe)]
    /\ wk' = [w \in Workers |-> NoWorker(input.game)]
    /\ moveTree' = <<>>
    /\ fringe' = <<>>
    /\ states' = <<>>
    /\ minSolution' = [sol |-> <<>>, count |-> NoCount]
    /\ UNCHANGED <<input, run, firstTime, initialMinMoves, moveTreeSizeLimit, ref,
                   recorded, mem, play>>

\* The caller calls KSolveAStar with the game g, nThreads threads, as call number r
Call(g, r) ==
    /\ result # NoResult
    /\ run' = r
    /\ ref' = IF run = 1 THEN result ELSE ref
    /\ input' = [input EXCEPT !.game = g]
    /\ result' = NoResult
    /\ recorded' = 0
    /\ LET st == Started(g, input.moveTreeLimit, input.nThreads)
       IN /\ moveTree' = st.moveTree
          /\ fringe' = st.fringe
          /\ firstTime' = st.firstTime
          /\ initialMinMoves' = st.initialMinMoves
          /\ moveTreeSizeLimit' = st.moveTreeSizeLimit
          /\ states' = st.states
          /\ minSolution' = st.minSolution
          /\ wk' = st.wk
    /\ UNCHANGED <<mem, play>>

\* The same game again, now with nThreads threads
SecondCall == run = 1 /\ Call(input.game, 2)

\* The caller plays the solution it got on its game, and hands that game in
WonCall ==
    /\ run = 2
    /\ result # NoResult
    /\ result.solution # <<>>
    /\ Call(MakeSequenceMoves(Deal(input.game), result.solution), 3)

WorkerStep(w) ==
    \/ CheckLimit(w) \/ ReadFirstTime(w) \/ ClearFirstTime(w) \/ Scan(w) \/ PopLocked(w)
    \/ Expand(w) \/ AutoMove(w) \/ ReplaceCheck(w) \/ ReplaceLocked(w) \/ BoundTest(w) \/ ClosedTest(w)
    \/ UpdateMoveTree(w) \/ UpdateFringe(w)

Next == (\E w \in Workers : WorkerStep(w)) \/ Return \/ SecondCall \/ WonCall

Spec == Init /\ [][Next]_vars

\* A thread inside Worker(): WorkerStep(w) can be taken exactly in these states
Running(w) == wk[w].pc \notin {"done", "idle", "aborted", "overrun"}

\* The scheduler lets every thread that can take a step take one (weak fairness of
\* WorkerStep(w), written with Running(w) for ENABLED <<WorkerStep(w)>>_vars), and
\* KSolveAStar goes on once RunWorkers has joined the threads
FairSpec ==
    /\ Spec
    /\ \A w \in Workers : []<>(~Running(w)) \/ []<><<WorkerStep(w)>>_vars
    /\ WF_vars(Return)

(***************************************************************************)
(* The closed set with callers on several threads: IsShortPathToState step *)
(* by step (GameStateMemory.cpp).  The set is phmap's                      *)
(* parallel_flat_hash_set with one std::mutex for each submap;             *)
(* lazy_emplace_l takes the mutex of the key's submap, looks the key up,   *)
(* and runs one of the two lambdas before it lets the mutex go.            *)
(***************************************************************************)
\* the calls made in all
MaxCalls == 3
\* the move counts presented are 1 .. MaxCount
MaxCount == 2
\* the number of submaps (2^8 in the source)
SubmapCount == 2
Submaps == 1 .. SubmapCount

\* The games presented: the short deal after its first move, and the games after
\* the first two moves available there
MemGames ==
    LET g0 == NewGame(DeckShort, 3, 1)
        a0 == AvailableMoves(g0, <<>>)
        g1 == MakeMove(a0.game, a0.avail[1])
        a1 == AvailableMoves(g1, a0.avail)
    IN <<g1, MakeMove(a1.game, a1.avail[1])>>
MemKey == [i \in 1 .. Len(MemGames) |-> GameStateKey(MemGames[i])]
MemKeys == {MemKey[i] : i \in 1 .. Len(MemGames)}

searchVars == <<input, run, moveTree, fringe, firstTime, initialMinMoves,
                moveTreeSizeLimit, minSolution, wk, result, ref, recorded, play>>

\* A thread outside IsShortPathToState.  pre is history: the part of the set in
\* the key's submap when the thread took the mutex
IdleCaller ==
    [pc |-> "idle", key |-> <<>>, moveCount |-> 0, newCount |-> 0, isNewKey |-> FALSE,
     valueChanged |-> FALSE, pre |-> <<>>]

\* A GameStateMemory after its constructor, no thread inside it.  keys holds the
\* keys of the games that will be presented.  Which submap a
\* key hashes to is the library's choice; the submaps are numbered from that of
\* the first game's key.  log is history: the calls made, each
\* with the calls that had returned when it was made
InitMem ==
    /\ input = Scenario(DeckShort, 3, 1, DefaultTreeLimit, MaxThreads)
    /\ run = 1
    /\ ref = NoResult
    /\ result = NoResult
    /\ recorded = 0
    /\ moveTree = <<>>
    /\ fringe = <<>>
    /\ firstTime = TRUE
    /\ initialMinMoves = MinimumMovesLeft(input.game)
    /\ moveTreeSizeLimit = input.moveTreeLimit
    /\ minSolution = [sol |-> <<>>, count |-> NoCount]
    /\ wk = [w \in Workers |-> NoWorker(input.game)]
    /\ states = <<>>
    /\ play = NoPlay
    /\ \E keys \in {MemKey} : \E sub \in [DOMAIN keys -> Submaps] :
          /\ sub[1] = 1
          /\ mem = [keys |-> keys, sub |-> sub, lock |-> [s \in Submaps |-> 0],
                 call |-> [w \in Workers |-> IdleCaller], log |-> <<>>]

\* The submap the key hashes to
SubmapOf(key) == mem.sub[CHOOSE i \in DOMAIN mem.keys : mem.keys[i] = key]

SetCaller(w, c) == [mem EXCEPT !.call[w] = c]

\* The calls of the log that have returned
Returned == {i \in 1 .. Len(mem.log) : mem.log[i].ret # "pending"}

\* A thread calls IsShortPathToState with the i-th game and the move count m:
\* const GameState newState{game, moveCount}
MemCall(w, i, m) ==
    /\ mem.call[w].pc = "idle"
    /\ Len(mem.log) < MaxCalls
    /\ mem' = [SetCaller(w, [mem.call[w] EXCEPT !.pc = "built", !.key = mem.keys[i],
                                                !.moveCount = m,
                                                !.newCount = MoveCountField(m),
                                                !.isNewKey = FALSE,
                                                !.valueChanged = FALSE])
                   EXCEPT !.log = Append(@, [w |-> w, key |-> mem.keys[i], m |-> m,
                                             ret |-> "pending", before |-> Returned])]
    /\ UNCHANGED <<states, searchVars>>

\* the mutex of the submap s is not held, ignored
LockNeverHeld(s) == TRUE

\* the mutex of the submap s is not held
LockFree(s) == mem.lock[s] = 0

\* lazy_emplace_l: lock the mutex of the key's submap
MemLock(w) ==
    /\ mem.call[w].pc = "built"
    /\ LET s == SubmapOf(mem.call[w].key)
       IN /\ LockFree(s)
          /\ mem' = [SetCaller(w, [mem.call[w] EXCEPT
                                     !.pc = "locked",
                                     !.pre = [k \in {k \in DOMAIN states : SubmapOf(k) = s}
                                                 |-> states[k]]])
                         EXCEPT !.lock[s] = w]
    /\ UNCHANGED <<states, searchVars>>

\* lazy_emplace_l: look the key up
MemFind(w) ==
    /\ mem.call[w].pc = "locked"
    /\ mem' = SetCaller(w, [mem.call[w] EXCEPT
                              !.pc = IF mem.call[w].key \in DOMAIN states
                                     THEN "found" ELSE "absent"])
    /\ UNCHANGED <<states, searchVars>>

\* The lambda run when the key is found, and the one run when it is not
MemStore(w) ==
    /\ mem.call[w].pc \in {"found", "absent"}
    /\ LET c == mem.call[w]
           shorter == c.key \in DOMAIN states /\ ShorterPath(c.moveCount, states[c.key])
       IN IF c.pc = "absent"
          THEN /\ states' = [k \in DOMAIN states \cup {c.key} |->
                                IF k = c.key THEN c.newCount ELSE states[k]]
               /\ mem' = SetCaller(w, [c EXCEPT !.pc = "unlock", !.isNewKey = TRUE])
          ELSE /\ states' = IF shorter THEN [states EXCEPT ![c.key] = c.moveCount]
                            ELSE states
               /\ mem' = SetCaller(w, [c EXCEPT !.pc = "unlock", !.valueChanged = shorter])
    /\ UNCHANGED searchVars

\* lazy_emplace_l: unlock the mutex
MemUnlock(w) ==
    /\ mem.call[w].pc = "unlock"
    /\ mem' = [SetCaller(w, [mem.call[w] EXCEPT !.pc = "return"])
                   EXCEPT !.lock[SubmapOf(mem.call[w].key)] = 0]
    /\ UNCHANGED <<states, searchVars>>

\* return isNewKey | valueChanged
MemReturn(w) ==
    /\ mem.call[w].pc = "return"
    /\ LET c == mem.call[w]
           i == CHOOSE i \in 1 .. Len(mem.log) :
                    mem.log[i].w = w /\ mem.log[i].ret = "pending"
       IN mem' = [SetCaller(w, [c EXCEPT !.pc = "idle"])
                     EXCEPT !.log[i].ret = IF c.isNewKey \/ c.valueChanged
                                            THEN "true" ELSE "false"]
    /\ UNCHANGED <<states, searchVars>>

NextMem ==
    \E w \in Workers :
        \/ \E i \in DOMAIN mem.keys, m \in 1 .. MaxCount : MemCall(w, i, m)
        \/ MemLock(w) \/ MemFind(w) \/ MemStore(w) \/ MemUnlock(w) \/ MemReturn(w)

SpecMem == InitMem /\ [][NextMem]_vars

(***************************************************************************)
(* Two games played from the same deal outside a search, each by the moves *)
(* AvailableMoves returns for the moves made so far, as MakeAutoMoves and  *)
(* the branches of Worker make them.                                       *)
(***************************************************************************)
\* the number of moves made in one game
MaxPlies == 6

\* The deals played: deck, draw setting and recycle limit
PlayDeals ==
    {<<DeckOne, 1, 1>>, <<DeckShort, 3, 1>>, <<DeckWaste, 3, 1>>, <<DeckLong, 3, 1>>,
     <<DeckCycle, 1, 1>>}

Players == {"a", "b"}

InitPlay ==
    /\ input = Scenario(DeckShort, 3, 1, DefaultTreeLimit, MaxThreads)
    /\ run = 1
    /\ ref = NoResult
    /\ result = NoResult
    /\ recorded = 0
    /\ moveTree = <<>>
    /\ fringe = <<>>
    /\ firstTime = TRUE
    /\ initialMinMoves = MinimumMovesLeft(input.game)
    /\ moveTreeSizeLimit = input.moveTreeLimit
    /\ minSolution = [sol |-> <<>>, count |-> NoCount]
    /\ wk = [w \in Workers |-> NoWorker(input.game)]
    /\ states = <<>>
    /\ mem = NoMem
    /\ \E d \in PlayDeals :
          play = [p \in Players |-> [game |-> NewGame(d[1], d[2], d[3]), moves |-> <<>>,
                                      last |-> NewGame(d[1], d[2], d[3])]]

\* One player makes one of the moves AvailableMoves returns: game.MakeMove(mv) and
\* the move joins the moves made.  last is history: the game before the move
PlayMove(who) ==
    /\ Len(play[who].moves) < MaxPlies
    /\ LET am == AvailableMoves(play[who].game, play[who].moves)
       IN \E i \in 1 .. Len(am.avail) :
             play' = [play EXCEPT ![who] = [game |-> MakeMove(am.game, am.avail[i]),
                                            moves |-> Append(play[who].moves, am.avail[i]),
                                            last |-> am.game]]
    /\ UNCHANGED <<input, run, moveTree, fringe, firstTime, initialMinMoves,
                   moveTreeSizeLimit, states, minSolution, wk, result, ref, recorded, mem>>

NextPlay == \E who \in Players : PlayMove(who)

SpecPlay == InitPlay /\ [][NextPlay]_vars

(***************************************************************************)
(* One game played one user move at a time, by the rules of the yardstick, *)
(* with a count of the moves still owed to a bound taken on the way: the   *)
(* bound MinimumMovesLeft gave for an earlier position, less the moves     *)
(* made since.                                                             *)
(***************************************************************************)
UserDeals ==
    {<<DeckShort, 1, 1>>, <<DeckShort, 3, 1>>, <<DeckLong, 3, 1>>}

\* The game with the piles of position p
GameAt(g, p) ==
    [g EXCEPT !.piles = [c \in Piles |->
                 IF c = Waste THEN [cards |-> p.waste, up |-> 0]
                 ELSE IF c = Stock THEN [cards |-> p.stock, up |-> 0]
                 ELSE IF IsTableau(c)
                 THEN [cards |-> p.tab[c - TableauBase + 1], up |-> p.up[c - TableauBase + 1]]
                 ELSE [cards |-> [r \in 1 .. p.fnd[c - FoundationBase + 1] |->
                                     Card(c - FoundationBase, r - 1)],
                       up |-> p.fnd[c - FoundationBase + 1]]],
              !.recycleCount = p.rc]

InitUser ==
    /\ input = Scenario(DeckShort, 3, 1, DefaultTreeLimit, MaxThreads)
    /\ run = 1
    /\ ref = NoResult
    /\ result = NoResult
    /\ recorded = 0
    /\ moveTree = <<>>
    /\ fringe = <<>>
    /\ firstTime = TRUE
    /\ initialMinMoves = MinimumMovesLeft(input.game)
    /\ moveTreeSizeLimit = input.moveTreeLimit
    /\ minSolution = [sol |-> <<>>, count |-> NoCount]
    /\ wk = [w \in Workers |-> NoWorker(input.game)]
    /\ states = <<>>
    /\ mem = NoMem
    /\ \E d \in UserDeals :
          LET g == NewGame(d[1], d[2], d[3])
          IN play = [game |-> g, pos |-> RawDeal(g), owed |-> MinimumMovesLeft(g)]

\* One user move
UserMove ==
    /\ \E q \in RawSteps(play.pos, play.game.draw, play.game.limit) :
          play' = [play EXCEPT !.pos = q, !.owed = IF @ > 0 THEN @ - 1 ELSE 0]
    /\ UNCHANGED <<input, run, moveTree, fringe, firstTime, initialMinMoves,
                   moveTreeSizeLimit, states, minSolution, wk, result, ref, recorded, mem>>

\* The bound is taken afresh for the position reached
TakeBound ==
    /\ LET h == MinimumMovesLeft(GameAt(play.game, play.pos))
       IN /\ play.owed # h
          /\ play' = [play EXCEPT !.owed = h]
    /\ UNCHANGED <<input, run, moveTree, fringe, firstTime, initialMinMoves,
                   moveTreeSizeLimit, states, minSolution, wk, result, ref, recorded, mem>>

NextUser == UserMove \/ TakeBound

SpecUser == InitUser /\ [][NextUser]_vars

(***************************************************************************)
(* Properties                                                              *)
(***************************************************************************)
\* C1: whenever KSolveAStar returns SolvedMinimal, the returned moves win the deal,
\* and no line of play wins the deal in fewer moves.
SolvedMinimalIsMinimal ==
    result.code = "SolvedMinimal" =>
        /\ TestSolution(input.game, result.solution)
        /\ MoveCount(result.solution) = RawMinimum(input.game)

\* C2: the outcome returned tells whether a solution was recorded and whether the
\* move tree exceeded moveTreeLimit, and the returned list is empty exactly for
\* Impossible and GaveUp.
OutcomeClassifies ==
    result # NoResult =>
        LET solved == recorded > 0
            over == result.moveTreeSize > input.moveTreeLimit
        IN /\ result.code = "SolvedMinimal" <=> (solved /\ ~over)
           /\ result.code = "Solved" <=> (solved /\ over)
           /\ result.code = "Impossible" <=> (~solved /\ ~over)
           /\ result.code = "GaveUp" <=> (~solved /\ over)
           /\ result.solution = <<>> <=> result.code \in {"Impossible", "GaveUp"}

\* A call with more than one thread has recorded a solution and outgrown the limit
SolvedOverLimit ==
    /\ run = 2
    /\ input.nThreads > 1
    /\ result.code = "Solved"
    /\ recorded > 0
    /\ result.moveTreeSize > input.moveTreeLimit

\* C3: a returned move list that is not empty replays on a fresh deal of the game:
\* every move is valid where it is made, and the game is over after the last one.
SolutionReplays ==
    (result # NoResult /\ result.solution # <<>>) =>
        /\ result.code \in {"Solved", "SolvedMinimal"}
        /\ TestSolution(input.game, result.solution)

\* A call with more than one thread has returned a solution that replays
SolutionReturned ==
    /\ input.nThreads > 1
    /\ result # NoResult
    /\ result.solution # <<>>
    /\ TestSolution(input.game, result.solution)

\* C4: whenever KSolveAStar, called on a freshly dealt game, returns Impossible,
\* the fringe is empty and no line of play wins the deal.
ImpossibleIsUnsolvable ==
    (run # 3 /\ result.code = "Impossible") =>
        /\ result.finalFringeStackSize = 0
        /\ RawMinimum(input.game) = NONE

\* C5: a game that is handed in already won gets an empty move list and the
\* outcome SolvedMinimal.
WonGameIsSolved ==
    (result # NoResult /\ GameOver(input.game)) =>
        /\ result.solution = <<>>
        /\ result.code = "SolvedMinimal"

\* C6: under fair scheduling every call of KSolveAStar ends: every worker leaves
\* its loop, and a result with one of the four outcome codes is returned.
Terminates == (result = NoResult) ~> (result # NoResult)

\* C7: the call with nThreads threads returns the outcome of the call with one
\* thread, and for SolvedMinimal a solution of the same move count.
SameOutcome ==
    (run = 2 /\ result # NoResult) =>
        /\ result.code = ref.code
        /\ result.code = "SolvedMinimal" =>
                MoveCount(result.solution) = MoveCount(ref.solution)

\* Worker: game.MakeMove(mv) ... game.UnMakeMove(mv)
RoundTrip(g, mv) == UnMakeMove(MakeMove(g, mv), mv)

\* The moves AvailableMoves returns for the game of a worker that is about to make
\* one of them: the single move of MakeAutoMoves, or the branches of the loop
MovesAt(r) ==
    IF r.pc = "auto" THEN AvailableMoves(r.game, r.seq).avail
    ELSE IF r.pc = "branch" THEN r.avail
    ELSE <<>>

\* C8 as stated: MakeMove(mv) followed by UnMakeMove(mv) restores the cards and the
\* up count of every pile, the recycle count and the king spaces, for every move
\* AvailableMoves returns in a state reached from the deal.
RoundTripRestoresAll ==
    \A w \in Workers : \A i \in 1 .. Len(MovesAt(wk[w])) :
        LET g == wk[w].game
            back == RoundTrip(g, MovesAt(wk[w])[i])
        IN /\ back.piles = g.piles
           /\ back.recycleCount = g.recycleCount
           /\ back.kingSpaces = g.kingSpaces

\* C8: MakeMove(mv) followed by UnMakeMove(mv) restores the cards of every pile, the
\* up count of every tableau pile, the recycle count and the king spaces, for every
\* move AvailableMoves returns in a state reached from the deal.
RoundTripRestoresGame ==
    \A w \in Workers : \A i \in 1 .. Len(MovesAt(wk[w])) :
        LET g == wk[w].game
            back == RoundTrip(g, MovesAt(wk[w])[i])
        IN /\ \A p \in Piles : back.piles[p].cards = g.piles[p].cards
           /\ \A p \in TableauCodes : back.piles[p].up = g.piles[p].up
           /\ back.recycleCount = g.recycleCount
           /\ back.kingSpaces = g.kingSpaces

\* A worker is about to try a move that takes a card from the waste pile or from a
\* foundation pile, and the round trip leaves that pile with another up count
RoundTripChangesUpCount ==
    \E w \in Workers : \E i \in 1 .. Len(MovesAt(wk[w])) :
        LET g == wk[w].game
            mv == MovesAt(wk[w])[i]
            back == RoundTrip(g, mv)
        IN /\ wk[w].pc = "branch"
           /\ ~IsStockMove(mv)
           /\ ~IsTableau(mv.from)
           /\ back.piles[mv.from].up # g.piles[mv.from].up
           /\ \A p \in Piles : back.piles[p].cards = g.piles[p].cards

\* The smaller of two move counts
Least(S) == CHOOSE x \in S : \A y \in S : x <= y

\* C9: IsShortPathToState returns true exactly when the key was not stored or the
\* move count is less than the stored one, it leaves the smaller of the two counts
\* stored and every other entry as it was, and once every call has returned each
\* key holds the smallest count presented for it.
ShortPathIsMinimum ==
    /\ \A w \in Workers :
          mem # NoMem /\ mem.call[w].pc = "unlock" =>
              LET c == mem.call[w]
                  s == SubmapOf(c.key)
                  new == c.key \notin DOMAIN c.pre
                  less == ~new /\ c.moveCount < c.pre[c.key]
              IN /\ (c.isNewKey \/ c.valueChanged) <=> (new \/ less)
                 /\ c.key \in DOMAIN states
                 /\ states[c.key] = IF new THEN c.moveCount
                                    ELSE Least({c.moveCount, c.pre[c.key]})
                 /\ {k \in DOMAIN states : SubmapOf(k) = s} = DOMAIN c.pre \cup {c.key}
                 /\ \A k \in DOMAIN c.pre \ {c.key} : states[k] = c.pre[k]
    /\ (mem # NoMem /\ \A w \in Workers : mem.call[w].pc = "idle") =>
          /\ DOMAIN states = {mem.log[i].key : i \in 1 .. Len(mem.log)}
          /\ \A k \in DOMAIN states :
                states[k] = Least({mem.log[i].m : i \in {j \in 1 .. Len(mem.log) :
                                                            mem.log[j].key = k}})

\* A call has lowered the count stored for its key, after a call that returned
\* false
CountLowered ==
    /\ mem # NoMem
    /\ \E w \in Workers : mem.call[w].pc = "unlock" /\ mem.call[w].valueChanged
    /\ \E i \in 1 .. Len(mem.log) : mem.log[i].ret = "false"

RECURSIVE RunInOrder(_, _, _)
\* The calls ord[i], ord[i+1], ... of the log made one after another on the set st,
\* each as one step: whether the calls that have returned returned this, and the
\* set left
RunInOrder(ord, i, st) ==
    IF i > Len(ord) THEN [ok |-> TRUE, states |-> st]
    ELSE LET c == mem.log[ord[i]]
             up == UpsertState(st, c.key, c.m)
         IN IF c.ret # "pending" /\ (c.ret = "true") # up.result
            THEN [ok |-> FALSE, states |-> st]
            ELSE RunInOrder(ord, i + 1, up.states)

\* The orders of the calls in S that keep a call that had returned before another
\* was made in front of it
OrdersOf(S) ==
    {ord \in [1 .. Cardinality(S) -> S] :
        /\ \A p, q \in 1 .. Cardinality(S) : p # q => ord[p] # ord[q]
        /\ \A p, q \in 1 .. Cardinality(S) : p < q => ord[q] \notin mem.log[ord[p]].before}

\* Two calls of the log neither of which had returned when the other was made
Overlap(a, b) == a # b /\ a \notin mem.log[b].before /\ b \notin mem.log[a].before

\* C10: the calls of IsShortPathToState made by several threads return, and leave
\* stored, what the same calls made one after another in some order do; two
\* overlapping calls with the same key and count do not both return true, and the
\* count stored for a key is never above a count a returned call presented.
CallsLinearizable ==
    mem # NoMem =>
        /\ \E S \in SUBSET (1 .. Len(mem.log)) :
              /\ Returned \subseteq S
              /\ \E ord \in OrdersOf(S) :
                    LET r == RunInOrder(ord, 1, <<>>)
                    IN /\ r.ok
                       /\ (\A w \in Workers : mem.call[w].pc = "idle") => r.states = states
        /\ \A a, b \in Returned :
              (Overlap(a, b) /\ mem.log[a].key = mem.log[b].key /\ mem.log[a].m = mem.log[b].m)
                  => ~(mem.log[a].ret = "true" /\ mem.log[b].ret = "true")
        /\ \A a \in Returned :
              /\ mem.log[a].key \in DOMAIN states
              /\ states[mem.log[a].key] <= mem.log[a].m

\* Two threads have presented a new key with the same count in overlapping calls,
\* and one of the two calls has returned true
NewKeyPresentedTwice ==
    /\ mem # NoMem
    /\ \E a, b \in Returned :
          /\ Overlap(a, b)
          /\ mem.log[a].key = mem.log[b].key
          /\ mem.log[a].m = mem.log[b].m
          /\ \A i \in 1 .. Len(mem.log) : i \notin {a, b} => mem.log[i].key # mem.log[a].key
          /\ mem.log[a].ret = "true"
          /\ mem.log[b].ret = "false"

\* The orders in which the tableau piles can stand
TableauOrders ==
    {pi \in [TableauCodes -> TableauCodes] : \A a, b \in TableauCodes : a # b => pi[a] # pi[b]}

\* The game g with its tableau piles in the order pi: pile p is g's pile pi[p]
Reordered(g, pi) ==
    [g EXCEPT !.piles = [p \in Piles |-> IF IsTableau(p) THEN g.piles[pi[p]] ELSE g.piles[p]]]

\* C11: a game reached by a worker and the same game with its tableau piles in any
\* other order (stock, waste and foundation piles the same) have equal keys.
KeyIgnoresTableauOrder ==
    \A w \in Workers :
        wk[w].pc # "idle" =>
            LET key == GameStateKey(wk[w].game)
            IN \A pi \in TableauOrders : GameStateKey(Reordered(wk[w].game, pi)) = key

\* A worker is about to look up the key of a game whose tableau piles are all
\* different, so that every other order of the piles is another game
KeyOfDistinctPiles ==
    \E w \in Workers :
        /\ wk[w].pc = "closed"
        /\ \A a, b \in TableauCodes :
              a # b => DeflateTableau(wk[w].game.piles[a]) # DeflateTableau(wk[w].game.piles[b])
        /\ \A pi \in TableauOrders :
              (\E p \in TableauCodes : pi[p] # p) =>
                  /\ Reordered(wk[w].game, pi).piles # wk[w].game.piles
                  /\ GameStateKey(Reordered(wk[w].game, pi)) = GameStateKey(wk[w].game)

\* The two games hold the same cards in every pile, and the same tableau piles
\* (cards and face-up count) in some order
SamePilesInSomeOrder(g, h) ==
    \E pi \in TableauOrders :
        /\ \A p \in TableauCodes : Reordered(g, pi).piles[p] = h.piles[p]
        /\ \A p \in Piles \ TableauCodes : g.piles[p].cards = h.piles[p].cards

\* C12 as stated: two games reached from the same deal have the same key only if
\* they have the same piles up to the order of the tableau piles and agree in
\* everything else that decides which moves are left, the recycles used included.
KeyIsPerfectHash ==
    play # NoPlay =>
        (GameStateKey(play["a"].game) = GameStateKey(play["b"].game) =>
            /\ SamePilesInSomeOrder(play["a"].game, play["b"].game)
            /\ play["a"].game.recycleCount = play["b"].game.recycleCount)

\* C12: two games reached from the same deal have the same key only if they have
\* the same stock, waste and foundation piles and the same tableau piles (cards and
\* face-up cards) up to their order.
KeyTellsPiles ==
    play # NoPlay =>
        (GameStateKey(play["a"].game) = GameStateKey(play["b"].game) =>
            SamePilesInSomeOrder(play["a"].game, play["b"].game))

\* Two games reached by different moves have the same key and the same piles with
\* the tableau piles in another order
SameKeyOtherOrder ==
    /\ play # NoPlay
    /\ play["a"].moves # play["b"].moves
    /\ GameStateKey(play["a"].game) = GameStateKey(play["b"].game)
    /\ play["a"].game.piles # play["b"].game.piles
    /\ SamePilesInSomeOrder(play["a"].game, play["b"].game)

\* The stack of the fringe with index k - 1, empty if the fringe has fewer stacks
StackAt(stacks, k) == IF k <= Len(stacks) THEN stacks[k] ELSE <<>>

\* C13: within one stack of the fringe the leaves come out last in, first out: a
\* step of a call changes a stack only by putting one leaf on top of it or by
\* taking its top leaf, and the leaf taken is the one Pop hands to its caller.
FringeIsLifo ==
    [][(result' = result /\ run' = run) =>
          /\ Len(fringe') >= Len(fringe)
          /\ \A k \in 1 .. Len(fringe') :
                LET old == StackAt(fringe, k)
                    new == fringe'[k]
                IN \/ new = old
                   \/ /\ Len(new) = Len(old) + 1
                      /\ SubSeq(new, 1, Len(old)) = old
                   \/ /\ old # <<>>
                      /\ new = SubSeq(old, 1, Len(old) - 1)
                      /\ \E w \in Workers :
                            /\ wk[w].pc = "lock"
                            /\ wk[w].index = k - 1
                            /\ wk'[w].pc = "test"
                            /\ wk'[w].leaf = old[Len(old)]]_vars

\* The call runs with one thread
OneThread == run = 1 \/ input.nThreads = 1

\* In a call with one thread Pop has handed out a leaf of a stack that holds an
\* older leaf: the leaf left on top hangs from an earlier node of the move tree
PoppedLaterLeaf ==
    \E w \in Workers :
        /\ OneThread
        /\ wk[w].pc = "test"
        /\ wk[w].leaf # DefaultNode
        /\ wk[w].index < Len(fringe)
        /\ fringe[wk[w].index + 1] # <<>>
        /\ LET stack == fringe[wk[w].index + 1]
           IN stack[Len(stack)].prev < wk[w].leaf.prev

\* C14: in a call with one thread Pop returns the index of the lowest non-empty
\* stack with the top leaf of that stack, and it returns none exactly when every
\* stack is empty; so the leaves come out in non-decreasing order of their index
\* unless a lower index is pushed in between.
PopTakesLowest ==
    [][OneThread =>
          \A w \in Workers :
              LET empty == \A k \in 1 .. Len(fringe) : fringe[k] = <<>>
              IN /\ (wk[w].pc \in {"scan", "lock"} /\ wk'[w].pc = "test") =>
                        /\ ~empty
                        /\ fringe[wk[w].index + 1] # <<>>
                        /\ \A k \in 1 .. wk[w].index : fringe[k] = <<>>
                        /\ wk'[w].leaf = fringe[wk[w].index + 1][Len(fringe[wk[w].index + 1])]
                        /\ wk'[w].minMoves0 = wk[w].index + initialMinMoves
                 /\ (wk[w].pc \in {"scan", "lock"} /\ wk'[w].pc = "done") => empty
                 /\ (wk[w].pc = "scan" /\ empty) => wk'[w].pc \in {"scan", "done"}
                 /\ (wk[w].pc = "scan" /\ ~empty) => wk'[w].pc = "lock"]_vars

\* In a call with one thread Pop has handed out a leaf of the lowest non-empty
\* stack while a stack with a higher index holds a leaf
PoppedLowestOfTwo ==
    \E w \in Workers :
        /\ OneThread
        /\ wk[w].pc = "test"
        /\ wk[w].leaf # DefaultNode
        /\ \A k \in 1 .. Len(fringe) : k <= wk[w].index => fringe[k] = <<>>
        /\ \E k \in 1 .. Len(fringe) : k > wk[w].index + 1 /\ fringe[k] # <<>>

\* C15: MinimumMovesLeft is consistent: for every state reached from the deal and
\* every move AvailableMoves returns in it, the bound of the state is at most the
\* bound of the state after the move plus the NMoves of the move, for draw setting
\* 1 and for a greater one.
HeuristicIsConsistent ==
    \A p \in DOMAIN play :
        LET am == AvailableMoves(play[p].game, play[p].moves)
            h == MinimumMovesLeft(am.game)
        IN \A i \in 1 .. Len(am.avail) :
              h <= MinimumMovesLeft(MakeMove(am.game, am.avail[i])) + NMoves(am.avail[i])

\* With more than one card drawn at a time a stock move of several user moves
\* lowers the bound by exactly its NMoves
StockMoveLowersBoundFully ==
    \E p \in DOMAIN play :
        LET am == AvailableMoves(play[p].game, play[p].moves)
        IN /\ play[p].game.draw > 1
           /\ play[p].moves # <<>>
           /\ \E i \in 1 .. Len(am.avail) :
                 /\ IsStockMove(am.avail[i])
                 /\ NMoves(am.avail[i]) > 1
                 /\ MinimumMovesLeft(am.game)
                       = MinimumMovesLeft(MakeMove(am.game, am.avail[i])) + NMoves(am.avail[i])

\* C16: MinimumMovesLeft is admissible: whatever position reached from the deal the
\* bound is taken for, no sequence of user moves wins from that position in fewer
\* moves than the bound, so nothing is owed when the game is won; and the bound of
\* a won position is 0.
HeuristicIsAdmissible ==
    RawWon(play.pos) =>
        /\ play.owed = 0
        /\ MinimumMovesLeft(GameAt(play.game, play.pos)) = 0

\* A game that draws more than one card at a time is won after the stock was
\* refilled, and every bound taken on the way has been paid
WonAfterRefill ==
    /\ RawWon(play.pos)
    /\ play.game.draw > 1
    /\ play.pos.rc > 0
    /\ play.owed = 0

\* The moves a MoveSpec stands for as far as piles are concerned: a ladder move is
\* its move between tableau piles, then its move to the foundation
Parts(mv) ==
    IF IsLadderMove(mv)
    THEN << [from |-> mv.from, to |-> mv.to, n |-> NCards(mv), flips |-> FALSE],
            [from |-> mv.from, to |-> LadderPileCode(mv), n |-> 1, flips |-> mv.flipsTopCard] >>
    ELSE << [from |-> mv.from, to |-> mv.to, n |-> NCards(mv), flips |-> mv.flipsTopCard] >>

PartsOf(moves) == ConcatIn([i \in 1 .. Len(moves) |-> Parts(moves[i])], 1, Len(moves))

\* parts[i] moved to pile Y the cards parts[j] moves on from Y to Z, and they could
\* have gone to Z at once
Detour(parts, i, j) ==
    LET Y == parts[j].from
        Z == parts[j].to
    IN /\ i < j
       /\ Y # Stock /\ Y # Waste
       /\ parts[i].to = Y
       /\ parts[i].n = parts[j].n
       /\ ~(parts[i].from = Z /\ parts[i].flips)
       /\ \A k \in (i + 1) .. (j - 1) :
             /\ parts[k].from # Y /\ parts[k].from # Z
             /\ parts[k].to # Y /\ parts[k].to # Z

\* C17: no solution KSolveAStar returns contains a move from Y to Z after an earlier
\* move to Y of the same number of cards, with no move touching Y or Z in between
\* and no flip on Z by the earlier move; a ladder move counts as its two moves.
\* The same holds of every sequence of moves a worker holds, which is where the
\* moves of a solution come from.
NoDetourInSolution ==
    /\ (result # NoResult /\ result.solution # <<>>) =>
          LET parts == PartsOf(result.solution)
          IN \A j \in 1 .. Len(parts) : \A i \in 1 .. (j - 1) : ~Detour(parts, i, j)
    /\ \A w \in Workers :
          LET parts == PartsOf(wk[w].seq)
          IN \A j \in 1 .. Len(parts) : \A i \in 1 .. (j - 1) : ~Detour(parts, i, j)

\* A returned solution moves cards on from a pile an earlier move brought cards to
SolutionMovesOn ==
    /\ result # NoResult
    /\ result.solution # <<>>
    /\ LET parts == PartsOf(result.solution)
       IN \E j \in 1 .. Len(parts) : \E i \in 1 .. (j - 1) :
             /\ parts[i].to = parts[j].from
             /\ parts[i].n = parts[j].n

RECURSIVE UserDraws(_, _, _)
\* The stock and waste piles after n draws by the user, who turns the waste pile
\* over whenever the stock is empty, and the number of times the user did so
UserDraws(t, draw, n) ==
    IF n = 0 THEN t
    ELSE LET next == RawDraw(t, draw, t.rc + 1)
         IN IF next = {} THEN t
            ELSE UserDraws(CHOOSE q \in next : TRUE, draw, n - 1)

\* The stock and waste piles of a game, with no refill counted yet
TalonOf(g) == [stock |-> g.piles[Stock].cards, waste |-> g.piles[Waste].cards, rc |-> 0]

\* The number of moves of a sequence that cross a refill of the stock
RecyclesIn(moves) == Cardinality({i \in 1 .. Len(moves) : moves[i].recycle})

\* C18: in every state reached from the deal by moves AvailableMoves returns the
\* recycle count is at most the recycle limit: a stock move with the recycle bit
\* set is generated only when the count is below the limit, every generated stock
\* move crosses at most one refill of the stock (one if its recycle bit is set,
\* none otherwise), and every returned solution recycles at most limit times.
RecycleWithinLimit ==
    /\ \A w \in Workers :
          LET g == wk[w].game
              moves == MovesAt(wk[w])
          IN /\ g.recycleCount <= g.limit
             /\ \A i \in 1 .. Len(moves) :
                   LET mv == moves[i]
                       drawn == UserDraws(TalonOf(g), g.draw, NMoves(mv) - 1)
                   IN /\ MakeMove(g, mv).recycleCount <= g.limit
                      /\ mv.recycle => IsStockMove(mv) /\ g.recycleCount < g.limit
                      /\ IsStockMove(mv) =>
                            /\ drawn.rc = IF mv.recycle THEN 1 ELSE 0
                            /\ drawn.waste = MakeMove(g, mv).piles[Waste].cards
                                                \o <<Back(MakeMove(g, mv).piles[mv.to])>>
    /\ (result # NoResult /\ result.solution # <<>>) =>
          RecyclesIn(result.solution) <= input.game.limit

\* A worker whose game has used up its recycle limit is about to make a stock move
StockMoveAtLimit ==
    \E w \in Workers :
        /\ wk[w].game.limit > 0
        /\ wk[w].game.recycleCount = wk[w].game.limit
        /\ \E i \in 1 .. Len(MovesAt(wk[w])) : IsStockMove(MovesAt(wk[w])[i])

\* The number of piles that receive cards when mv, not a stock move, is made
PilesFed(g, mv) ==
    Cardinality({c \in Piles \ {mv.from} : MakeMove(g, mv).piles[c].cards # g.piles[c].cards})

\* The user's n draws bring the card mv plays to the top of the waste pile, with
\* the refill mv records
DrawsReach(g, mv, n) ==
    LET drawn == UserDraws(TalonOf(g), g.draw, n)
    IN /\ drawn.waste # <<>>
       /\ drawn.waste[Len(drawn.waste)] = Back(MakeMove(g, mv).piles[mv.to])
       /\ drawn.rc = IF mv.recycle THEN 1 ELSE 0

\* C19: for every MoveSpec AvailableMoves returns, NMoves is the number of user
\* moves it stands for: 1 for a plain move of cards to one pile, 2 for a ladder
\* move, which feeds two piles, and for a stock move 1 plus the number of draws
\* the user needs to bring the played card to the top of the waste pile, across a
\* refill if the move records one; the number is below 32, so it fits five bits.
NMovesCountsUserMoves ==
    \A p \in DOMAIN play :
        LET am == AvailableMoves(play[p].game, play[p].moves)
            g == am.game
        IN \A i \in 1 .. Len(am.avail) :
              LET mv == am.avail[i]
              IN /\ NMoves(mv) \in 1 .. 31
                 /\ IF IsStockMove(mv)
                    THEN /\ DrawsReach(g, mv, NMoves(mv) - 1)
                         /\ \A n \in 0 .. (NMoves(mv) - 2) : ~DrawsReach(g, mv, n)
                         /\ UserDraws(TalonOf(g), g.draw, NMoves(mv) - 1).stock
                               = MakeMove(g, mv).piles[Stock].cards
                    ELSE NMoves(mv) = PilesFed(g, mv)

\* A player can make a ladder move, and a player can make a stock move that draws
\* more than once and crosses a refill
LadderAndLongStockMove ==
    /\ \E p \in DOMAIN play :
          LET am == AvailableMoves(play[p].game, play[p].moves)
          IN \E i \in 1 .. Len(am.avail) : IsLadderMove(am.avail[i])
    /\ \E p \in DOMAIN play :
          LET am == AvailableMoves(play[p].game, play[p].moves)
          IN \E i \in 1 .. Len(am.avail) :
                /\ IsStockMove(am.avail[i])
                /\ am.avail[i].recycle
                /\ NMoves(am.avail[i]) > 2

\* The moves of up to TableauSize cards from one pile to another that a caller
\* of IsValid can write down with NonStockMove
TrialMoves(g) ==
    {NonStockMove(f, t, n, g.piles[f].up) :
        f \in Piles \ {Stock}, t \in Piles, n \in 1 .. TableauSize}

\* The rules of the game for a move of n cards from one pile to another: the cards
\* are the top card of the waste pile or of a foundation pile, or face-up cards
\* from the top of a tableau pile; they go to a tableau pile whose top card the
\* first of them fits (a king if the pile is empty), or, a single card, to the
\* foundation pile of its suit as the next rank
LegalMove(g, mv) ==
    LET fromPile == g.piles[mv.from]
        toPile == g.piles[mv.to]
        n == NCards(mv)
        base == fromPile.cards[Size(fromPile) - n + 1]
    IN /\ mv.from # mv.to
       /\ mv.from = Waste \/ IsTableau(mv.from) \/ IsFoundationPile(mv.from)
       /\ IsTableau(mv.to) \/ IsFoundationPile(mv.to)
       /\ n >= 1 /\ n <= Size(fromPile)
       /\ IF IsTableau(mv.from) THEN n <= fromPile.up ELSE n = 1
       /\ IF IsTableau(mv.to) THEN RawFits(base, toPile.cards)
          ELSE /\ n = 1
               /\ Suit(base) = mv.to - FoundationBase
               /\ Rank(base) = Size(toPile)

\* C20: in every game state IsValid(mv) is true exactly when mv is a legal move:
\* false for a move of a face-down card, of a run that is not a face-up sequence,
\* to the stock or the waste pile, of a card other than a king to an empty column,
\* or of the wrong card to a foundation pile, and true for every legal move.
IsValidIffLegal ==
    \A p \in DOMAIN play :
        \A mv \in TrialMoves(play[p].game) :
            IsValid(play[p].game, mv) <=> LegalMove(play[p].game, mv)

\* C21: Deal, called in any state reached through AvailableMoves and MakeMove, puts
\* the game in the state of a freshly constructed game: the piles as dealt, the
\* recycle count 0, the king spaces counted anew, and the next AvailableMoves
\* returns what it returns on a fresh game, with no move left over from before.
DealIsFresh ==
    \A p \in DOMAIN play :
        LET dealt == Deal(play[p].game)
            fresh == NewGame(play[p].game.deck, play[p].game.draw, play[p].game.limit)
        IN /\ dealt.piles = fresh.piles
           /\ dealt.recycleCount = 0
           /\ dealt.kingSpaces = fresh.kingSpaces
           /\ AvailableMoves(dealt, <<>>).avail = AvailableMoves(fresh, <<>>).avail

\* C22: the assertion of the worker loop never fails.  For a leaf popped with the
\* lower bound minMoves0 and a branch move tried after the stem moves,
\* minMoves0 <= made + MinimumMovesLeft(child); every staged offset is therefore not
\* negative and not below the offset of the bucket the leaf came from.
AssertionHolds ==
    \A w \in Workers :
        /\ wk[w].pc = "closed" =>
              wk[w].minMoves0 <= wk[w].movesMadeCount + NMoves(wk[w].avail[wk[w].bi])
                                   + MinimumMovesLeft(wk[w].game)
        /\ wk[w].pc \in {"branch", "closed", "tree"} =>
              \A i \in 1 .. Len(wk[w].branches) :
                  /\ wk[w].branches[i].offset >= 0
                  /\ wk[w].branches[i].offset + initialMinMoves >= wk[w].minMoves0

\* A worker that has made stem moves from a leaf of a bucket above the first has
\* staged a branch for a bucket above the leaf's.
StagedAboveParent ==
    \E w \in Workers :
        /\ wk[w].pc = "tree"
        /\ Len(wk[w].seq) > wk[w].startSize + 1
        /\ wk[w].minMoves0 > initialMinMoves
        /\ \E i \in 1 .. Len(wk[w].branches) :
               wk[w].branches[i].offset + initialMinMoves > wk[w].minMoves0

\* C23: in the move tree the node at index i has _prevNode NONE or below i, so
\* following the links from any node reaches NONE in at most i + 1 steps: the tree
\* has no cycle, whatever the interleaving of the workers.
TreeHasNoCycle ==
    \A i \in 1 .. Len(moveTree) :
        /\ moveTree[i].prev = NONE \/ (0 <= moveTree[i].prev /\ moveTree[i].prev < i - 1)
        /\ Len(PathTo(moveTree, i - 1)) <= i

\* Two workers have written the tree, and a stem hangs off a node written earlier
\* than the node before it.
TreeBranchesWithTwoThreads ==
    /\ run = 2
    /\ \A w \in Workers : wk[w].pc \notin {"done", "idle"}
    /\ \E i \in 1 .. Len(moveTree) : moveTree[i].prev # NONE /\ moveTree[i].prev < i - 2

\* C24: the move tree is append-only while the solver runs: no step changes the
\* move or the _prevNode of a node already written, the size of the tree never
\* goes down, and so OverLimit, once true, stays true until the solver returns.
TreeIsAppendOnly ==
    [][(result = NoResult /\ result' = NoResult) =>
          /\ Len(moveTree') >= Len(moveTree)
          /\ SubSeq(moveTree', 1, Len(moveTree)) = moveTree
          /\ (OverLimit => OverLimit')]_vars

\* The tree is over its limit and holds nodes, and a worker that passed the test of
\* the limit earlier is about to append its stem moves to it.
AppendWhenOverLimit ==
    /\ result = NoResult
    /\ OverLimit
    /\ moveTree # <<>>
    /\ \E w \in Workers : wk[w].pc = "tree" /\ Len(wk[w].seq) > wk[w].startSize

\* The leaves other threads can see or have taken: those in the fringe, and the
\* leaf each worker holds
VisibleLeaves ==
    {fringe[i][j] : <<i, j>> \in UNION {{<<i, j>> : j \in 1 .. Len(fringe[i])} :
                                          i \in 1 .. Len(fringe)}}
        \cup {wk[w].leaf : w \in Workers}

LoadRebuildsPublished ==
    \A w \in Workers :
        /\ wk[w].pc = "fringe" =>
              \A i \in 1 .. Len(wk[w].branches) :
                  LET mv == wk[w].branches[i].mv
                      loaded == LoadMoveSequence(moveTree, MoveNode(mv, wk[w].stemEnd))
                  IN /\ loaded.seq = Append(wk[w].seq, mv)
                     /\ loaded.startSize = Len(wk[w].seq)
                     /\ MoveCount(loaded.seq) = wk[w].movesMadeCount + NMoves(mv)
        /\ (wk[w].pc = "test" /\ ~IsDefault(wk[w].leaf.move)) =>
              LET loaded == LoadMoveSequence(moveTree, wk[w].leaf)
              IN /\ loaded.startSize = Len(loaded.seq) - 1
                 /\ loaded.seq[Len(loaded.seq)] = wk[w].leaf.move
                 /\ MoveCount(loaded.seq)
                      + MinimumMovesLeft(MakeSequenceMoves(Deal(wk[w].game), loaded.seq))
                    = wk[w].minMoves0

\* With two workers, one has popped a leaf at the end of a path of three or more
\* moves, among them a stock move that counts for more than one move.
LongPathPopped ==
    /\ run = 2
    /\ \E w \in Workers :
          /\ wk[w].pc = "test"
          /\ wk[w].leaf.prev # NONE
          /\ LET loaded == LoadMoveSequence(moveTree, wk[w].leaf)
             IN Len(loaded.seq) >= 3 /\ MoveCount(loaded.seq) > Len(loaded.seq)

\* C27: an expansion that stages no branch (a dead end, a win, or every branch
\* rejected) writes nothing to the shared storage: the step that ends it leaves the
\* move tree and the fringe as they are, and while the solver runs the tree changes
\* and the fringe grows only by a step of a worker that has staged branches.
NoBranchNoWrite ==
    [][/\ \A w \in Workers :
             (/\ wk[w].pc \in {"auto", "replace", "replaceLocked", "branch", "closed"}
              /\ wk'[w].pc = "loop") =>
                 moveTree' = moveTree /\ fringe' = fringe
       /\ (/\ result = NoResult /\ result' = NoResult
           /\ moveTree' # moveTree \/ SumLen(fringe') > SumLen(fringe)) =>
              \E w \in Workers :
                  /\ wk[w].pc \in {"tree", "fringe"}
                  /\ wk[w].branches # <<>>
                  /\ wk'[w] # wk[w]]_vars

\* A worker that has made stem moves is at the last of the available moves with no
\* branch staged, and the closed list rejects this one too; the tree and the fringe
\* hold nodes and leaves.
EveryBranchRejected ==
    \E w \in Workers :
        /\ wk[w].pc = "closed"
        /\ wk[w].bi = Len(wk[w].avail)
        /\ wk[w].branches = <<>>
        /\ Len(wk[w].seq) > wk[w].startSize
        /\ ~UpsertState(states, GameStateKey(wk[w].game),
                        wk[w].movesMadeCount + NMoves(wk[w].avail[wk[w].bi])).result
        /\ moveTree # <<>>
        /\ SumLen(fringe) > 0

\* C28: ShareMoves with a staged branch appends the moves of the current sequence
\* from _startSize to its end as one chain at consecutive indices: the first node
\* has the _prevNode of the popped leaf, each later node the index of the node
\* appended just before it, also when another worker shares its moves meanwhile.
StemIsOneChain ==
    [][\A w \in Workers :
          (wk[w].pc = "tree" /\ wk'[w].pc = "fringe") =>
             LET n == Len(moveTree)
                 first == wk[w].startSize
                 count == Len(wk[w].seq) - first
             IN /\ Len(moveTree') = n + count
                /\ SubSeq(moveTree', 1, n) = moveTree
                /\ \A i \in 1 .. count :
                      /\ moveTree'[n + i].move = wk[w].seq[first + i]
                      /\ moveTree'[n + i].prev =
                            IF i = 1 THEN wk[w].leaf.prev ELSE n + i - 2
                /\ wk'[w].stemEnd = IF count = 0 THEN wk[w].leaf.prev ELSE n + count - 1]_vars

\* Both workers are in ShareMoves with moves to append, one of them with two or
\* more, and the tree already holds nodes.
TwoWorkersShare ==
    /\ moveTree # <<>>
    /\ \E w, v \in Workers :
          /\ w # v
          /\ wk[w].pc = "tree" /\ Len(wk[w].seq) >= wk[w].startSize + 2
          /\ wk[v].pc \in {"tree", "fringe"} /\ Len(wk[v].seq) > wk[v].startSize

\* how often br occurs in branches
TimesIn(branches, br) == Cardinality({i \in 1 .. Len(branches) : branches[i] = br})

\* C29: ShareMoves pushes every staged branch (mv, offset) exactly once, on the stack
\* with the index offset, as a leaf whose _prevNode is the last stem node the same
\* ShareMoves wrote (the popped leaf's _prevNode if it wrote none); the pushes come
\* in non-increasing order of offset, and the staging buffer is empty afterwards.
BranchesPushedOnce ==
    [][\A w \in Workers :
          /\ (wk[w].pc = "tree" /\ wk'[w].pc = "fringe") =>
                /\ wk'[w].bi = 1
                /\ Len(wk'[w].branches) = Len(wk[w].branches)
                /\ \A i \in 1 .. Len(wk[w].branches) :
                      TimesIn(wk'[w].branches, wk[w].branches[i])
                        = TimesIn(wk[w].branches, wk[w].branches[i])
                /\ \A i \in 2 .. Len(wk'[w].branches) :
                      wk'[w].branches[i - 1].offset >= wk'[w].branches[i].offset
                /\ wk'[w].stemEnd = IF Len(wk[w].seq) > wk[w].startSize
                                     THEN Len(moveTree') - 1 ELSE wk[w].leaf.prev
          /\ (wk[w].pc = "fringe" /\ wk'[w] # wk[w]) =>
                LET br == wk[w].branches[wk[w].bi]
                    leaf == MoveNode(br.mv, wk[w].stemEnd)
                IN /\ Len(fringe') >= br.offset + 1
                   /\ fringe'[br.offset + 1] =
                         (IF br.offset + 1 <= Len(fringe) THEN fringe[br.offset + 1] ELSE <<>>)
                             \o <<leaf>>
                   /\ \A i \in 1 .. Len(fringe') :
                         i # br.offset + 1 =>
                            fringe'[i] = IF i <= Len(fringe) THEN fringe[i] ELSE <<>>
                   /\ IF wk[w].bi < Len(wk[w].branches)
                      THEN /\ wk'[w].pc = "fringe"
                           /\ wk'[w].bi = wk[w].bi + 1
                           /\ wk'[w].branches = wk[w].branches
                           /\ wk'[w].stemEnd = wk[w].stemEnd
                      ELSE wk'[w].pc = "loop" /\ wk'[w].branches = <<>>]_vars

\* A worker that wrote stem nodes is pushing the last of three or more branches,
\* staged with different offsets.
LastOfThreePushes ==
    \E w \in Workers :
        /\ wk[w].pc = "fringe"
        /\ wk[w].bi = Len(wk[w].branches)
        /\ Len(wk[w].branches) >= 3
        /\ wk[w].branches[1].offset > wk[w].branches[wk[w].bi].offset
        /\ wk[w].stemEnd # wk[w].leaf.prev

\* stack i of the fringe, empty if the fringe has no such stack yet
StackOrNone(stacks, i) == IF i <= Len(stacks) THEN stacks[i] ELSE <<>>

\* C30: whatever the interleaving of the workers' pushes and pops, the fringe
\* neither loses nor duplicates a leaf.  While the solver runs a step changes the
\* fringe in one of two ways only: one worker pushes one leaf on top of one stack,
\* or one worker takes the top leaf off the stack it has locked and gets it with
\* the index of that stack; every other leaf stays where it is, and a worker gets
\* a leaf in no other way.
FringeKeepsLeaves ==
    [][(result = NoResult /\ result' = NoResult) =>
          LET poppers == {w \in Workers : wk[w].pc = "lock" /\ wk'[w].pc = "test"}
              pushers == {w \in Workers : wk[w].pc = "fringe" /\ wk'[w] # wk[w]}
          IN /\ Cardinality(poppers \cup pushers) <= 1
             /\ \A w \in Workers :
                   (wk'[w].leaf # wk[w].leaf /\ wk'[w].leaf # DefaultNode) => w \in poppers
             /\ \A w \in poppers :
                   LET i == wk[w].index + 1
                   IN /\ i <= Len(fringe) /\ fringe[i] # <<>>
                      /\ wk'[w].leaf = fringe[i][Len(fringe[i])]
                      /\ wk'[w].minMoves0 = wk[w].index + initialMinMoves
                      /\ fringe' = [fringe EXCEPT ![i] = SubSeq(@, 1, Len(@) - 1)]
             /\ \A w \in pushers :
                   /\ SumLen(fringe') = SumLen(fringe) + 1
                   /\ Len(fringe') >= Len(fringe)
                   /\ \A i \in 1 .. Len(fringe') :
                         \/ fringe'[i] = StackOrNone(fringe, i)
                         \/ /\ fringe'[i] = Append(StackOrNone(fringe, i),
                                                   fringe'[i][Len(fringe'[i])])
                            /\ i = wk[w].branches[wk[w].bi].offset + 1
             /\ (poppers \cup pushers = {}) => fringe' = fringe]_vars

\* Both workers have found the same stack non-empty and are about to lock it, and
\* the stack holds one leaf only.
TwoPopsForOneLeaf ==
    \E w, v \in Workers :
        /\ w # v
        /\ wk[w].pc = "lock" /\ wk[v].pc = "lock"
        /\ wk[w].index = wk[v].index
        /\ Len(fringe[wk[w].index + 1]) = 1

(***************************************************************************)
(* The fringe with pushing threads, step by step (MoveStorage.hpp): Push   *)
(* is Emplace, which calls UpsizeTo(index + 1), takes the mutex of the     *)
(* stack and appends.  UpsizeTo reads the number of stacks without a lock, *)
(* and under the queue's mutex reads it again and resizes; resize adds     *)
(* the stacks one emplace_back at a time.  A thread is in wk with its      *)
(* position, the index and the leaf it pushes.                             *)
(***************************************************************************)
\* the keys pushed are 0 .. MaxKey
MaxKey == 2
\* the leaves pushed in all
MaxLeaves == 3
\* the leaves pushed: a move with either of two parents
PushLeaves == {MoveNode(NonStockMove(TableauBase, Waste, 1, 1), p) : p \in {NONE, 0}}

InitFringe ==
    /\ input = Scenario(DeckShort, 3, 1, DefaultTreeLimit, MaxThreads)
    /\ run = 1
    /\ ref = NoResult
    /\ result = NoResult
    /\ recorded = 0
    /\ moveTree = <<>>
    /\ fringe = <<>>
    /\ firstTime = TRUE
    /\ initialMinMoves = MinimumMovesLeft(input.game)
    /\ moveTreeSizeLimit = input.moveTreeLimit
    /\ minSolution = [sol |-> <<>>, count |-> NoCount]
    /\ wk = [w \in Workers |-> NoWorker(input.game)]
    /\ states = <<>>
    /\ mem = NoMem
    /\ play = NoPlay

\* the threads inside Push
Pushing == {w \in Workers : wk[w].pc # "idle"}

\* Push(index, value): Emplace calls UpsizeTo(index + 1), whose first test of the
\* number of stacks is made without a lock
Push(w, index, value) ==
    /\ wk[w].pc = "idle"
    /\ SumLen(fringe) + Cardinality(Pushing) < MaxLeaves
    /\ SetWorker(w, [wk[w] EXCEPT !.pc = IF Len(fringe) < index + 1
                                         THEN "growLock" ELSE "stackLock",
                                  !.index = index, !.leaf = value])
    /\ UNCHANGED <<input, run, moveTree, fringe, firstTime, initialMinMoves,
                   moveTreeSizeLimit, states, minSolution, result, ref, recorded, mem, play>>

\* UpsizeTo: Guard desposito(_mutex)
UpsizeLock(w) ==
    /\ wk[w].pc = "growLock"
    /\ \A v \in Workers : wk[v].pc # "grow"
    /\ SetWorker(w, [wk[w] EXCEPT !.pc = "grow"])
    /\ UNCHANGED <<input, run, moveTree, fringe, firstTime, initialMinMoves,
                   moveTreeSizeLimit, states, minSolution, result, ref, recorded, mem, play>>

\* UpsizeTo that resizes under the mutex without the second test: resize drops
\* the last stack while there are more than newSize
UpsizeLockedNoRecheck(w) ==
    /\ wk[w].pc = "grow"
    /\ IF Len(fringe) < wk[w].index + 1
       THEN fringe' = Append(fringe, <<>>) /\ wk' = wk
       ELSE IF Len(fringe) > wk[w].index + 1
       THEN fringe' = SubSeq(fringe, 1, Len(fringe) - 1) /\ wk' = wk
       ELSE fringe' = fringe /\ SetWorker(w, [wk[w] EXCEPT !.pc = "stackLock"])
    /\ UNCHANGED <<input, run, moveTree, firstTime, initialMinMoves,
                   moveTreeSizeLimit, states, minSolution, result, ref, recorded, mem, play>>

\* UpsizeTo under the mutex: if (_stacks.size() < newSize) _stacks.resize(newSize),
\* one emplace_back of resize at a time, then the mutex is released
UpsizeLocked(w) ==
    /\ wk[w].pc = "grow"
    /\ IF Len(fringe) < wk[w].index + 1
       THEN fringe' = Append(fringe, <<>>) /\ wk' = wk
       ELSE fringe' = fringe /\ SetWorker(w, [wk[w] EXCEPT !.pc = "stackLock"])
    /\ UNCHANGED <<input, run, moveTree, firstTime, initialMinMoves,
                   moveTreeSizeLimit, states, minSolution, result, ref, recorded, mem, play>>

\* Emplace: auto& pStack = _stacks[index]; under the mutex of the stack,
\* emplace_back.  An index past the last stack fails the range check of operator[]
EmplaceLocked(w) ==
    /\ wk[w].pc = "stackLock"
    /\ IF wk[w].index + 1 <= Len(fringe)
       THEN /\ fringe' = Emplace(fringe, wk[w].index, wk[w].leaf)
            /\ SetWorker(w, [wk[w] EXCEPT !.pc = "idle", !.index = 0, !.leaf = DefaultNode])
       ELSE /\ fringe' = fringe
            /\ SetWorker(w, [wk[w] EXCEPT !.pc = "aborted"])
    /\ UNCHANGED <<input, run, moveTree, firstTime, initialMinMoves,
                   moveTreeSizeLimit, states, minSolution, result, ref, recorded, mem, play>>

NextFringe ==
    \E w \in Workers :
        \/ \E index \in 0 .. MaxKey, value \in PushLeaves : Push(w, index, value)
        \/ UpsizeLock(w) \/ UpsizeLocked(w) \/ EmplaceLocked(w)

SpecFringe == InitFringe /\ [][NextFringe]_vars

\* C31: Push(k, leaf) leaves the fringe with at least k + 1 stacks and leaf on top
\* of stack k, and changes no other leaf; growing the fringe never takes a stack
\* away and never changes what a stack holds, also when two threads grow it at the
\* same time; no thread comes to a stack that does not exist.
PushGrowsAndPuts ==
    [][/\ Len(fringe') >= Len(fringe)
       /\ (wk' = wk /\ fringe' # fringe) =>
             /\ fringe' = Append(fringe, <<>>)
             /\ \E w \in Workers : wk[w].pc = "grow" /\ Len(fringe) < wk[w].index + 1
       /\ \A w \in Workers :
             /\ wk'[w].pc # "aborted"
             /\ wk'[w].pc = "stackLock" => Len(fringe') >= wk'[w].index + 1
             /\ (wk[w].pc = "stackLock" /\ wk'[w].pc = "idle") =>
                   LET k == wk[w].index + 1
                   IN /\ Len(fringe') = Len(fringe) /\ Len(fringe') >= k
                      /\ fringe'[k] = Append(fringe[k], wk[w].leaf)
                      /\ \A i \in 1 .. Len(fringe) :
                            i # k => fringe'[i] = fringe[i]]_vars

\* One thread holds the queue's mutex and has more stacks to add while the other,
\* which wants fewer, waits for the mutex, and a stack already holds a leaf.
TwoThreadsGrow ==
    \E w, v \in Workers :
        /\ wk[w].pc = "grow" /\ Len(fringe) < wk[w].index + 1
        /\ wk[v].pc = "growLock" /\ wk[v].index < wk[w].index
        /\ SumLen(fringe) > 0

(***************************************************************************)
(* The candidate solution with workers that call ReplaceIfShorter          *)
(* (KSolveAStar.cpp): each call is ReplaceCheck, the test made without the *)
(* mutex, and ReplaceLocked, the test and the assignment under it.  play   *)
(* is history: the sequences the calls were made with, in the order of the *)
(* calls.                                                                  *)
(***************************************************************************)
\* the calls of ReplaceIfShorter made in all
MaxReplaceCalls == 4
\* The sequences handed in: of one, two and three moves, two of them with the
\* same count
Candidates ==
    LET a == NonStockMove(TableauBase, FoundationBase, 1, 1)
        b == NonStockMove(TableauBase + 1, FoundationBase + 1, 1, 1)
    IN {<<a>>, <<a, b>>, <<b, a>>, <<a, b, a>>}

InitBest ==
    /\ input = Scenario(DeckShort, 3, 1, DefaultTreeLimit, MaxThreads)
    /\ run = 1
    /\ ref = NoResult
    /\ result = NoResult
    /\ recorded = 0
    /\ moveTree = <<>>
    /\ fringe = <<>>
    /\ firstTime = TRUE
    /\ initialMinMoves = MinimumMovesLeft(input.game)
    /\ moveTreeSizeLimit = input.moveTreeLimit
    /\ minSolution = [sol |-> <<>>, count |-> NoCount]
    /\ wk = [w \in Workers |-> NewWorker(input.game)]
    /\ states = <<>>
    /\ mem = NoMem
    /\ play = <<>>

\* Worker: minSolution.ReplaceIfShorter(moveStorage.MoveSequence(), movesMadeCount)
ReplaceCall(w, source) ==
    /\ wk[w].pc = "loop"
    /\ Len(play) < MaxReplaceCalls
    /\ SetWorker(w, [wk[w] EXCEPT !.pc = "replace", !.seq = source,
                                  !.movesMadeCount = MoveCount(source)])
    /\ play' = Append(play, source)
    /\ UNCHANGED <<input, run, moveTree, fringe, firstTime, initialMinMoves,
                   moveTreeSizeLimit, states, minSolution, result, ref, recorded, mem>>

NextBest ==
    \E w \in Workers :
        \/ \E source \in Candidates : ReplaceCall(w, source)
        \/ ReplaceCheck(w) \/ ReplaceLocked(w)

SpecBest == InitBest /\ [][NextBest]_vars

\* No call of ReplaceIfShorter is under way, and if calls were made the stored
\* solution and count are those of a call with the smallest count of all
BestIsMinimum ==
    (play # <<>> /\ \A w \in Workers : wk[w].pc = "loop") =>
        /\ \E i \in 1 .. Len(play) :
              minSolution = [sol |-> play[i], count |-> MoveCount(play[i])]
        /\ \A i \in 1 .. Len(play) : minSolution.count <= MoveCount(play[i])

\* C32: however the calls of ReplaceIfShorter interleave, a stored solution is
\* replaced only by the sequence and count of a call with a strictly smaller
\* count, the stored count never goes up once a solution is stored, and when all
\* calls have returned the stored solution and count are those of a call with the
\* smallest count among the calls made.
BestOnlyImproves ==
    [][/\ minSolution' # minSolution =>
             \E w \in Workers :
                 /\ wk[w].pc = "replaceLocked"
                 /\ minSolution' = [sol |-> wk[w].seq, count |-> wk[w].movesMadeCount]
                 /\ minSolution.sol = <<>> \/ minSolution'.count < minSolution.count
       /\ minSolution.sol # <<>> =>
             minSolution'.sol # <<>> /\ minSolution'.count <= minSolution.count
       /\ BestIsMinimum']_vars

\* A stored solution has been replaced by a shorter one, and a worker that has
\* passed the test made without the mutex is about to store one shorter still.
ShorterWaitsForMutex ==
    /\ recorded >= 2
    /\ \E w \in Workers :
          /\ wk[w].pc = "replaceLocked"
          /\ wk[w].movesMadeCount < minSolution.count

\* C33: after Start exactly one call of PopNextMoveSequence returns the initial
\* lower bound with the default leaf: a worker returns it only while _firstTime is
\* still set, so the root of the search is expanded by one worker only.
SentinelReturnedOnce ==
    [][\A w \in Workers : (wk[w].pc = "first" /\ wk'[w].pc = "test") => firstTime]_vars

\* C34: a worker leaves its loop only when the move tree is over its limit, when
\* Pop has found no leaf in its five tries, or when the lower bound of the popped
\* leaf is not below the move count of the best solution; no popped leaf with a
\* lower bound below the best solution is dropped while the tree is within its limit.
LeavesLoopForCause ==
    [][\A w \in Workers :
          (wk[w].pc \notin {"done", "idle"} /\ wk'[w].pc = "done") =>
             \/ wk[w].pc = "loop" /\ OverLimit
             \/ /\ wk[w].pc \in {"scan", "lock"}
                /\ wk[w].tries = PopTries - 1
                /\ fringe' = fringe
             \/ wk[w].pc = "test" /\ wk[w].minMoves0 >= minSolution.count]_vars

\* The games a and b are in the same position: the same cards in every pile, the
\* same up count in every tableau pile, the same recycle count and king spaces
SamePosition(a, b) ==
    /\ \A p \in Piles : a.piles[p].cards = b.piles[p].cards
    /\ \A p \in TableauCodes : a.piles[p].up = b.piles[p].up
    /\ a.recycleCount = b.recycleCount
    /\ a.kingSpaces = b.kingSpaces

\* One step of the loop over the available moves, for the worker w.  exact: the
\* game is compared in every field of every pile
BranchRule(w, exact) ==
    LET r == wk[w]
        mv == r.avail[r.bi]
        made == r.movesMadeCount + NMoves(mv)
        before == MakeSequenceMoves(Deal(r.game), r.seq)
        restored == /\ SamePosition(wk'[w].game, before)
                    /\ exact => wk'[w].game.piles = before.piles
    IN /\ (r.pc = "branch" /\ wk'[w] # r) =>
             LET child == MakeMove(r.game, mv)
                 pass == minSolution.sol = <<>>
                         \/ made + MinimumMovesLeft(child) < minSolution.count
             IN /\ states' = states
                /\ wk'[w].branches = r.branches
                /\ pass => wk'[w].pc = "closed" /\ wk'[w].game = child
                /\ ~pass => wk'[w].pc # "closed"
                /\ wk'[w].pc = "branch" => restored
       /\ (r.pc = "closed" /\ wk'[w] # r) =>
             LET isShort == UpsertState(states, GameStateKey(r.game), made).result
                 offset == made + MinimumMovesLeft(r.game) - initialMinMoves
             IN /\ wk'[w].branches = IF isShort
                                        THEN Append(r.branches, [mv |-> mv, offset |-> offset])
                                        ELSE r.branches
                /\ wk'[w].pc = "branch" => restored

\* C35: a branch move is staged if and only if it passes the test against the best
\* solution (there is none, or made + MinimumMovesLeft(child) is below its count) and
\* IsShortPathToState(child, made) returns true; it is staged with the offset
\* made + MinimumMovesLeft(child) - initialMinMoves; a branch that fails the first
\* test leaves the closed set alone; and before the next branch is tried the game
\* is back in the position the current sequence leads to: the cards of every pile,
\* the up counts of the tableau piles, the recycle count and the king spaces.
BranchStagedIffPasses == [][\A w \in Workers : BranchRule(w, FALSE)]_vars

\* C35 as stated: ... and the game is back in the state before the branch, in
\* every field of every pile.
BranchStagedAndGameExact == [][\A w \in Workers : BranchRule(w, TRUE)]_vars

\* A best solution is stored, and a worker is about to try a branch that fails
\* the test against it, with more branches to try afterwards.
BranchFailsBound ==
    \E w \in Workers :
        /\ wk[w].pc = "branch"
        /\ wk[w].bi < Len(wk[w].avail)
        /\ minSolution.sol # <<>>
        /\ wk[w].movesMadeCount + NMoves(wk[w].avail[wk[w].bi])
             + MinimumMovesLeft(MakeMove(wk[w].game, wk[w].avail[wk[w].bi]))
           >= minSolution.count

\* C36: the current sequence of a worker never holds more moves than its capacity:
\* a move for a full sequence is detected and stops the program, it is never
\* written past the end of the array.
OverflowIsDetected ==
    \A w \in Workers : wk[w].pc # "overrun" /\ Len(wk[w].seq) <= SequenceCapacity

\* The rules of the game for a move AvailableMoves returns in game g.  A stock move
\* stands for the user's draws and the play of the card they bring to the top of
\* the waste pile; a ladder move for a move between tableau piles and the move of
\* the face-up card it uncovers to its foundation pile.  The move records the
\* face-up count of its tableau pile, and its flip flag is set exactly when the
\* move takes all the face-up cards of a pile that has more cards.
ReturnedMoveIsLegal(g, mv) ==
    IF IsStockMove(mv)
    THEN LET drawn == UserDraws(TalonOf(g), g.draw, NMoves(mv) - 1)
             cd == drawn.waste[Len(drawn.waste)]
         IN /\ NMoves(mv) >= 1
            /\ drawn.waste # <<>>
            /\ drawn.rc = (IF mv.recycle THEN 1 ELSE 0)
            /\ g.recycleCount + drawn.rc <= g.limit
            /\ PDrawN(g.piles, Waste, Stock, mv.drawCount)[Waste].cards = drawn.waste
            /\ PDrawN(g.piles, Waste, Stock, mv.drawCount)[Stock].cards = drawn.stock
            /\ IF IsTableau(mv.to) THEN RawFits(cd, g.piles[mv.to].cards)
               ELSE /\ IsFoundationPile(mv.to)
                    /\ Suit(cd) = mv.to - FoundationBase
                    /\ Rank(cd) = Size(g.piles[mv.to])
    ELSE LET fromPile == g.piles[mv.from]
             n == NCards(mv)
             taken == n + (IF IsLadderMove(mv) THEN 1 ELSE 0)
             uncovered == fromPile.cards[Size(fromPile) - n]
         IN /\ LegalMove(g, mv)
            /\ IsTableau(mv.from) => mv.fromUpCount = fromPile.up
            /\ mv.flipsTopCard => IsTableau(mv.from) /\ taken = fromPile.up
            /\ (IsTableau(mv.from) /\ taken = fromPile.up /\ Size(fromPile) > taken)
                  => mv.flipsTopCard
            /\ IsLadderMove(mv) =>
                  /\ IsTableau(mv.to)
                  /\ n < fromPile.up
                  /\ Suit(uncovered) = mv.ladderSuit
                  /\ Rank(uncovered) = Size(g.piles[LadderPileCode(mv)])

\* A card that can go to its foundation pile as a dominant move lies on top of the
\* waste pile or of a tableau pile, or, drawing one card at a time, of the stock
DominantMoveExists(g) ==
    \E p \in {Waste, Stock} \cup TableauCodes :
        /\ Size(g.piles[p]) > 0
        /\ p = Stock => g.draw = 1
        /\ Rank(Back(g.piles[p])) <= MinFoundationPileSize(g) + 1
        /\ Rank(Back(g.piles[p])) = Size(g.piles[FoundationBase + Suit(Back(g.piles[p]))])

\* C37, as amended: every move AvailableMoves returns is a legal move in the state
\* in which it is returned, with the face-up count and the flip flag of its pile,
\* also when it is a dominant move from the cache filled in an earlier state; and
\* whenever a dominant move is left in the cache or passes the XYZ filter
\* AvailableMoves returns exactly one move, a move to a foundation pile.
ReturnedMovesAreLegal ==
    \A p \in DOMAIN play :
        LET g == play[p].game
            am == AvailableMoves(g, play[p].moves)
            dominant == DominantAvailableMoves(g, MinFoundationPileSize(g))
        IN /\ \A i \in 1 .. Len(am.avail) : ReturnedMoveIsLegal(g, am.avail[i])
           /\ DominantMoveExists(g) <=> dominant # <<>>
           /\ (g.cache # <<>> \/ XYZ_Filter(dominant, play[p].moves) # <<>>) =>
                 /\ Len(am.avail) = 1
                 /\ IsFoundationPile(am.avail[1].to)

\* C37: every move AvailableMoves returns is a legal move in the state in which it
\* is returned, with the face-up count and the flip flag of its pile, also when it
\* is a dominant move from the cache filled in an earlier state; and whenever a
\* dominant move is available AvailableMoves returns exactly one move.
AvailableMovesAreLegal ==
    \A p \in DOMAIN play :
        LET am == AvailableMoves(play[p].game, play[p].moves)
        IN /\ \A i \in 1 .. Len(am.avail) : ReturnedMoveIsLegal(play[p].game, am.avail[i])
           /\ (DominantMoveExists(play[p].game) \/ play[p].game.cache # <<>>) =>
                 Len(am.avail) = 1

\* A player is served a dominant move from the cache, which was filled before the
\* player's last move
CachedMoveServed ==
    \E p \in DOMAIN play :
        /\ play[p].game.cache # <<>>
        /\ Len(play[p].moves) >= 1
        /\ play[p].game = MakeMove(play[p].last, play[p].moves[Len(play[p].moves)])
        /\ AvailableMoves(play[p].game, play[p].moves).avail
              = <<play[p].game.cache[Len(play[p].game.cache)]>>

(***************************************************************************)
(* The size of the move tree with many workers.  Worker() tests OverLimit  *)
(* at the top of its loop, without the tree mutex, and ShareMoves appends  *)
(* the stem moves at the end of the trip, under the mutex but without a    *)
(* test of the size.  Only the number of workers at each of the two places *)
(* matters here, so wk counts them: wk.loop workers are at the top of the  *)
(* loop (or have left it), wk.tree workers have passed the test, popped a  *)
(* leaf and made their moves, and are about to call ShareMoves.  The       *)
(* search is taken up where the tree has as many nodes as the limit        *)
(* allows and the fringe holds a leaf for every worker that asks.          *)
(***************************************************************************)
\* the nodes Start reserves beyond the limit: _moveTree.reserve(moveTreeSizeLimit+1000)
TreeReserve == 1000
\* nThreads of the call
ManyThreads == 251
\* the stem moves of one trip: none at a dead end, MaxStem otherwise
MaxStem == 4
\* moveTreeLimit of the call
ReserveTreeLimit == 2

InitReserve ==
    /\ input = Scenario(DeckShort, 3, 1, ReserveTreeLimit, ManyThreads)
    /\ run = 1
    /\ ref = NoResult
    /\ result = NoResult
    /\ recorded = 0
    /\ moveTree = [i \in 1 .. input.moveTreeLimit |->
                      MoveNode(DefaultMove, IF i = 1 THEN NONE ELSE i - 2)]
    /\ fringe = <<>>
    /\ firstTime = FALSE
    /\ initialMinMoves = MinimumMovesLeft(input.game)
    /\ moveTreeSizeLimit = input.moveTreeLimit
    /\ minSolution = [sol |-> <<>>, count |-> NoCount]
    /\ wk = [loop |-> input.nThreads, tree |-> 0]
    /\ states = <<>>
    /\ mem = NoMem
    /\ play = NoPlay

\* while (!moveStorage.Shared().OverLimit() && ...): a worker at the top of the loop
\* finds the tree within the limit and goes through the trip up to ShareMoves
PassLimit ==
    /\ wk.loop > 0
    /\ ~OverLimit
    /\ wk' = [loop |-> wk.loop - 1, tree |-> wk.tree + 1]
    /\ UNCHANGED <<input, run, moveTree, fringe, firstTime, initialMinMoves,
                   moveTreeSizeLimit, states, minSolution, result, ref, recorded, mem, play>>

\* ShareMoves: nothing at a dead end, else UpdateMoveTree appends the stem moves;
\* the worker is back at the top of the loop
ShareStem ==
    /\ wk.tree > 0
    /\ \E n \in {0, MaxStem} :
          moveTree' = AppendStem(moveTree, [i \in 1 .. n |-> DefaultMove], NONE).tree
    /\ wk' = [loop |-> wk.loop + 1, tree |-> wk.tree - 1]
    /\ UNCHANGED <<input, run, fringe, firstTime, initialMinMoves,
                   moveTreeSizeLimit, states, minSolution, result, ref, recorded, mem, play>>

NextReserve == PassLimit \/ ShareStem

SpecReserve == InitReserve /\ [][NextReserve]_vars

\* C38: for every number of workers and every interleaving the move tree never has
\* more nodes than Start reserved for it, moveTreeSizeLimit + 1000, so that no
\* append moves the node array while other workers follow parent links.
TreeWithinReserve == Len(moveTree) <= moveTreeSizeLimit + TreeReserve

\* The shape DeflateTableau and MinimumMovesLeft take for granted: an empty tableau
\* pile has no face-up card; any other has at least one and at most as many as it
\* has cards, and no more than a run from the king down to the two; each face-up
\* card but the first covers the card beneath it
TableauShape(g) ==
    \A t \in TableauCodes :
        LET pile == g.piles[t]
        IN IF Size(pile) = 0 THEN pile.up = 0
           ELSE /\ 1 <= pile.up /\ pile.up <= Size(pile)
                /\ pile.up <= CardsPerSuit - 1
                /\ \A i \in (Size(pile) - pile.up + 2) .. Size(pile) :
                      Covers(pile.cards[i], pile.cards[i - 1])

\* C39: in every state reached from the deal by making and unmaking moves
\* AvailableMoves returns, each tableau pile that is not empty has at least one
\* face-up card, no more than it has cards and no more than 12 (the ranks but one),
\* each empty tableau pile has none, and every face-up card but the first of its
\* pile covers the card beneath it.
TableauKeepsShape ==
    \A w \in Workers :
        /\ TableauShape(wk[w].game)
        /\ wk[w].pc = "branch" =>
              LET made == MakeMove(wk[w].game, wk[w].avail[wk[w].bi])
              IN /\ TableauShape(made)
                 /\ TableauShape(UnMakeMove(made, wk[w].avail[wk[w].bi]))

\* A worker has made and unmade a branch move and is about to make the next one,
\* with a run of face-up cards on face-down cards in its game
RunAfterUnMake ==
    \E w \in Workers :
        /\ wk[w].pc = "branch"
        /\ wk[w].bi >= 2
        /\ \E t \in TableauCodes :
              /\ wk[w].game.piles[t].up >= 2
              /\ Size(wk[w].game.piles[t]) > wk[w].game.piles[t].up

\* The piles of g hold every card of the deck once; no pile holds more cards than
\* a PileVec has room for, which is the size of the stock after the deal; every
\* foundation pile holds the cards of its suit from the ace up
CardsInPlace(g) ==
    /\ Cardinality({pi \in Piles \X (1 .. CardsPerDeck) : pi[2] <= Size(g.piles[pi[1]])})
          = CardsPerDeck
    /\ \A cd \in 0 .. (CardsPerDeck - 1) :
          \E p \in Piles : \E i \in 1 .. Size(g.piles[p]) : g.piles[p].cards[i] = cd
    /\ \A p \in Piles : Size(g.piles[p]) <= TalonSize
    /\ \A s \in 0 .. (SuitsPerDeck - 1) :
          g.piles[FoundationBase + s].cards
             = [r \in 1 .. Size(g.piles[FoundationBase + s]) |-> Card(s, r - 1)]

\* C40: in every state reached from the deal by MakeMove and UnMakeMove calls with
\* moves AvailableMoves returned, the piles together hold each card of the deck
\* exactly once, no pile holds more than 24 cards (the cards left for the stock by
\* the deal), and every foundation pile holds the cards of its own suit in rank
\* order from the ace up.
CardsAreConserved ==
    \A w \in Workers :
        /\ CardsInPlace(wk[w].game)
        /\ wk[w].pc = "branch" =>
              LET made == MakeMove(wk[w].game, wk[w].avail[wk[w].bi])
              IN /\ CardsInPlace(made)
                 /\ CardsInPlace(UnMakeMove(made, wk[w].avail[wk[w].bi]))

\* A worker is about to make a branch move after it has unmade another, in a game
\* with cards on a foundation pile and on the waste pile and with a stock that has
\* been turned over
ManyPilesAfterUnMake ==
    \E w \in Workers :
        /\ wk[w].pc = "branch"
        /\ wk[w].bi >= 2
        /\ wk[w].game.recycleCount >= 1
        /\ Size(wk[w].game.piles[Waste]) >= 1
        /\ \E s \in 0 .. (SuitsPerDeck - 1) : Size(wk[w].game.piles[FoundationBase + s]) >= 2

====
